---------------------------- MODULE Spec2Model ----------------------------
(***************************************************************************)
(* A model of the BJData (mpack-derived) streaming writer, streaming       *)
(* reader, structural tracker and tree error latch.                        *)
(*                                                                         *)
(* An instance (writer, reader, tree) is a record holding the fields of    *)
(* the C struct the code reads and writes, plus the environment the        *)
(* callbacks act on (the sink a flush callback writes to, the number of    *)
(* times the error callback ran).  Every C function is an operator from    *)
(* the record before the call to the record after it; an action applies    *)
(* one public function to the instance.                                    *)
(*                                                                         *)
(* A callback that leaves non-locally (longjmp, throw) sets the scratch    *)
(* field "jumped"; every later step of the same call is then skipped,      *)
(* which is what unwinding the C stack does.                               *)
(***************************************************************************)
EXTENDS Integers, Sequences, FiniteSets, TLC

(***************************************************************************)
(* Error kinds (bjd_error_t) and value kinds (bjd_type_t).                 *)
(***************************************************************************)
bjd_ok == "ok"
bjd_error_io == "io"
bjd_error_invalid == "invalid"
bjd_error_unsupported == "unsupported"
bjd_error_type == "type"
bjd_error_too_big == "too_big"
bjd_error_memory == "memory"
bjd_error_bug == "bug"
bjd_error_data == "data"
bjd_error_eof == "eof"

bjd_error_t == {bjd_ok, bjd_error_io, bjd_error_invalid, bjd_error_unsupported,
                bjd_error_type, bjd_error_too_big, bjd_error_memory,
                bjd_error_bug, bjd_error_data, bjd_error_eof}

bjd_type_missing == "missing"
bjd_type_nil == "nil"
bjd_type_noop == "noop"
bjd_type_bool == "bool"
bjd_type_int == "int"
bjd_type_uint == "uint"
bjd_type_float == "float"
bjd_type_double == "double"
bjd_type_str == "str"
bjd_type_huge == "huge"
bjd_type_array == "array"
bjd_type_map == "map"
bjd_type_ext == "ext"
\* The identifier bjd_type_bin is used by bjd_finish_bin, bjd_read_tag,
\* bjd_discard and bjd_tag_cmp but is not an enumerator of bjd_type_t (the
\* enumerator for binary data is bjd_type_huge).  It is kept as a kind of
\* its own, equal to no enumerator.
bjd_type_bin == "bin"

bjd_version_v4 == 4
bjd_version_v5 == 5
bjd_version_current == bjd_version_v5

BJDATA_WRITER_MINIMUM_BUFFER_SIZE == 32
BJDATA_TRACKING_INITIAL_CAPACITY == 8

(***************************************************************************)
(* Structural tracker (bjd_track_t).  "elements" is the stack, innermost   *)
(* compound last; "alloc" is FALSE once the element array has been freed.  *)
(* Every operation returns the error code and the tracker afterwards.      *)
(***************************************************************************)
TrackResult(e, t) == [error |-> e, track |-> t]

bjd_track_init ==
    [elements |-> << >>, capacity |-> BJDATA_TRACKING_INITIAL_CAPACITY, alloc |-> TRUE,
     unclosed |-> FALSE]

\* alloc_ok: whether the realloc of the element array succeeds
bjd_track_grow(track, alloc_ok) ==
    IF ~alloc_ok
    THEN TrackResult(bjd_error_memory, track)
    ELSE TrackResult(bjd_ok, [track EXCEPT !.capacity = track.capacity * 2])

bjd_track_push(track, type, count, alloc_ok) ==
    LET grown == IF Len(track.elements) = track.capacity
                 THEN bjd_track_grow(track, alloc_ok)
                 ELSE TrackResult(bjd_ok, track)
    IN  IF grown.error # bjd_ok
        THEN grown
        ELSE TrackResult(bjd_ok,
                [grown.track EXCEPT !.elements =
                    Append(@, [type |-> type, left |-> count, key_needs_value |-> FALSE])])

bjd_track_pop(track, type) ==
    LET n == Len(track.elements)
        element == track.elements[n]
    IN  IF n = 0 THEN TrackResult(bjd_error_bug, track)
        ELSE IF element.type # type THEN TrackResult(bjd_error_bug, track)
        ELSE IF element.key_needs_value THEN TrackResult(bjd_error_bug, track)
        ELSE IF element.left # 0 THEN TrackResult(bjd_error_bug, track)
        ELSE TrackResult(bjd_ok, [track EXCEPT !.elements = SubSeq(@, 1, n - 1)])

bjd_track_peek_element(track) ==
    LET n == Len(track.elements)
        element == track.elements[n]
    IN  IF n = 0 THEN TrackResult(bjd_ok, track)
        ELSE IF element.type # bjd_type_map /\ element.type # bjd_type_array
             THEN TrackResult(bjd_error_bug, track)
        ELSE IF element.left = 0 /\ ~element.key_needs_value
             THEN TrackResult(bjd_error_bug, track)
        ELSE TrackResult(bjd_ok, track)

\* A tracker that counts a map's keys like its values: what the pair
\* counting of a map rules out.
bjd_track_element_counting_keys(track) ==
    LET n == Len(track.elements)
        peeked == bjd_track_peek_element(track)
    IN  IF n = 0 \/ peeked.error # bjd_ok THEN peeked
        ELSE TrackResult(bjd_ok, [track EXCEPT !.elements[n].left = @ - 1])

bjd_track_element(track) ==
    LET n == Len(track.elements)
        element == track.elements[n]
        peeked == bjd_track_peek_element(track)
    IN  IF n = 0 \/ peeked.error # bjd_ok THEN peeked
        ELSE IF element.type = bjd_type_map /\ ~element.key_needs_value
             THEN TrackResult(bjd_ok, [track EXCEPT !.elements[n].key_needs_value = TRUE])
        ELSE TrackResult(bjd_ok,
                [track EXCEPT !.elements[n].key_needs_value = FALSE,
                              !.elements[n].left = @ - 1])

\* A tracker that lets a payload run past its declared length.
bjd_track_bytes_unbounded(track, count) ==
    LET n == Len(track.elements)
        element == track.elements[n]
    IN  IF n = 0 THEN TrackResult(bjd_error_bug, track)
        ELSE IF element.type = bjd_type_map \/ element.type = bjd_type_array
             THEN TrackResult(bjd_error_bug, track)
        ELSE TrackResult(bjd_ok,
                [track EXCEPT !.elements[n].left = IF @ < count THEN 0 ELSE @ - count])

bjd_track_bytes(track, count) ==
    LET n == Len(track.elements)
        element == track.elements[n]
    IN  IF n = 0 THEN TrackResult(bjd_error_bug, track)
        ELSE IF element.type = bjd_type_map \/ element.type = bjd_type_array
             THEN TrackResult(bjd_error_bug, track)
        ELSE IF element.left < count THEN TrackResult(bjd_error_bug, track)
        ELSE TrackResult(bjd_ok, [track EXCEPT !.elements[n].left = @ - count])

bjd_track_str_bytes_all(track, count) ==
    LET tracked == bjd_track_bytes(track, count)
        n == Len(tracked.track.elements)
        element == tracked.track.elements[n]
    IN  IF tracked.error # bjd_ok THEN tracked
        ELSE IF element.type # bjd_type_str THEN TrackResult(bjd_error_bug, tracked.track)
        ELSE IF element.left # 0 THEN TrackResult(bjd_error_bug, tracked.track)
        ELSE tracked

bjd_track_check_empty(track) ==
    IF Len(track.elements) # 0
    THEN TrackResult(bjd_error_bug, [track EXCEPT !.unclosed = TRUE])
    ELSE TrackResult(bjd_ok, track)

\* Frees the element array (elements = NULL); count is left as it was.
\* bjd_track_destroy checking the balance whether or not it is a cancel.
bjd_track_destroy_checking(track, cancel) ==
    LET checked == bjd_track_check_empty(track)
    IN  TrackResult(checked.error, [checked.track EXCEPT !.alloc = FALSE])

bjd_track_destroy(track, cancel) ==
    LET checked == IF cancel THEN TrackResult(bjd_ok, track)
                   ELSE bjd_track_check_empty(track)
    IN  TrackResult(checked.error, [checked.track EXCEPT !.alloc = FALSE])

(***************************************************************************)
(* UTF-8 (bjd_utf8_check and bjd_utf8_check_no_null).  A string is the     *)
(* sequence of its bytes, each in 0..255.                                  *)
(***************************************************************************)
\* (byte & 0xC0) == 0x80
Utf8Continuation(byte) == byte \in 128..191

\* what is left of a string after its first n bytes
Utf8Rest(str, n) == SubSeq(str, n + 1, Len(str))

\* bjd_utf8_check_impl without the test for surrogates
RECURSIVE bjd_utf8_check_impl_surrogates(_, _)
bjd_utf8_check_impl_surrogates(str, allow_null) ==
    IF Len(str) = 0 THEN TRUE
    ELSE LET lead == str[1]
             count == Len(str)
         IN  IF ~allow_null /\ lead = 0 THEN FALSE
             ELSE IF lead <= 127 THEN bjd_utf8_check_impl_surrogates(Utf8Rest(str, 1), allow_null)
             ELSE IF lead \in 192..223
             THEN IF count < 2 THEN FALSE
                  ELSE IF ~Utf8Continuation(str[2]) THEN FALSE
                  ELSE IF (lead % 32) * 64 + (str[2] % 64) < 128 THEN FALSE
                  ELSE bjd_utf8_check_impl_surrogates(Utf8Rest(str, 2), allow_null)
             ELSE IF lead \in 224..239
             THEN IF count < 3 THEN FALSE
                  ELSE IF ~Utf8Continuation(str[2]) THEN FALSE
                  ELSE IF ~Utf8Continuation(str[3]) THEN FALSE
                  ELSE LET z == (lead % 16) * 4096 + (str[2] % 64) * 64 + (str[3] % 64)
                       IN  IF z < 2048 THEN FALSE
                           ELSE bjd_utf8_check_impl_surrogates(Utf8Rest(str, 3), allow_null)
             ELSE IF lead \in 240..247
             THEN IF count < 4 THEN FALSE
                  ELSE IF ~Utf8Continuation(str[2]) THEN FALSE
                  ELSE IF ~Utf8Continuation(str[3]) THEN FALSE
                  ELSE IF ~Utf8Continuation(str[4]) THEN FALSE
                  ELSE LET z == (lead % 8) * 262144 + (str[2] % 64) * 4096
                                    + (str[3] % 64) * 64 + (str[4] % 64)
                       IN  IF z < 65536 THEN FALSE
                           ELSE IF z > 1114111 THEN FALSE
                           ELSE bjd_utf8_check_impl_surrogates(Utf8Rest(str, 4), allow_null)
             ELSE FALSE

\* The loop of bjd_utf8_check_impl, one sequence per turn: "str" is what is
\* left of the string and Len(str) is count.
RECURSIVE bjd_utf8_check_impl(_, _)
bjd_utf8_check_impl(str, allow_null) ==
    IF Len(str) = 0 THEN TRUE
    ELSE LET lead == str[1]
             count == Len(str)
         IN  IF ~allow_null /\ lead = 0 THEN FALSE
             \* ASCII
             ELSE IF lead <= 127 THEN bjd_utf8_check_impl(Utf8Rest(str, 1), allow_null)
             \* (lead & 0xE0) == 0xC0
             ELSE IF lead \in 192..223
             THEN IF count < 2 THEN FALSE
                  ELSE IF ~Utf8Continuation(str[2]) THEN FALSE
                  ELSE IF (lead % 32) * 64 + (str[2] % 64) < 128 THEN FALSE
                  ELSE bjd_utf8_check_impl(Utf8Rest(str, 2), allow_null)
             \* (lead & 0xF0) == 0xE0
             ELSE IF lead \in 224..239
             THEN IF count < 3 THEN FALSE
                  ELSE IF ~Utf8Continuation(str[2]) THEN FALSE
                  ELSE IF ~Utf8Continuation(str[3]) THEN FALSE
                  ELSE LET z == (lead % 16) * 4096 + (str[2] % 64) * 64 + (str[3] % 64)
                       IN  IF z < 2048 THEN FALSE
                           ELSE IF z >= 55296 /\ z <= 57343 THEN FALSE
                           ELSE bjd_utf8_check_impl(Utf8Rest(str, 3), allow_null)
             \* (lead & 0xF8) == 0xF0
             ELSE IF lead \in 240..247
             THEN IF count < 4 THEN FALSE
                  ELSE IF ~Utf8Continuation(str[2]) THEN FALSE
                  ELSE IF ~Utf8Continuation(str[3]) THEN FALSE
                  ELSE IF ~Utf8Continuation(str[4]) THEN FALSE
                  ELSE LET z == (lead % 8) * 262144 + (str[2] % 64) * 4096
                                    + (str[3] % 64) * 64 + (str[4] % 64)
                       IN  IF z < 65536 THEN FALSE
                           ELSE IF z > 1114111 THEN FALSE
                           ELSE bjd_utf8_check_impl(Utf8Rest(str, 4), allow_null)
             \* a continuation byte without a lead, or a lead of five bytes or more
             ELSE FALSE

bjd_utf8_check(str) == bjd_utf8_check_impl(str, TRUE)

bjd_utf8_check_no_null(str) == bjd_utf8_check_impl(str, FALSE)

(***************************************************************************)
(* Fixed-width values.  A 64-bit value (uint64_t, or int64_t in two's      *)
(* complement) is the tuple of its eight bytes, most significant first; a  *)
(* float or double is the tuple of the four or eight bytes of its          *)
(* representation.  Lengths and counts (uint32_t) are natural numbers.     *)
(***************************************************************************)
\* the uint64_t with value n, for 0 <= n < 2^31
u64(n) ==
    <<0, 0, 0, 0, n \div 16777216, (n \div 65536) % 256, (n \div 256) % 256, n % 256>>

\* the int64_t with value n, for -2^31 < n < 2^31
i64(n) ==
    IF n >= 0 THEN u64(n)
    ELSE [i \in 1..8 |-> 255 - u64(-(n + 1))[i]]

u64_lt(a, b) == \E i \in 1..8 : a[i] < b[i] /\ \A j \in 1..(i - 1) : a[j] = b[j]

u64_le(a, b) == ~u64_lt(b, a)

i64_lt(a, b) ==
    u64_lt([a EXCEPT ![1] = (@ + 128) % 256], [b EXCEPT ![1] = (@ + 128) % 256])

i64_ge(a, b) == ~i64_lt(a, b)

UINT32_MAX_u64 == <<0, 0, 0, 0, 255, 255, 255, 255>>
INT32_MIN_i64 == <<255, 255, 255, 255, 128, 0, 0, 0>>
INT16_MIN_i64 == <<255, 255, 255, 255, 255, 255, 128, 0>>
INT8_MIN_i64 == <<255, 255, 255, 255, 255, 255, 255, 128>>

\* the n least significant bytes of a 64-bit value: (uint8_t)value, (int16_t)value, ...
Truncate(value, n) == SubSeq(value, 9 - n, 8)

\* a value of n bytes widened to 64 bits, without and with its sign
ZeroExtend(bytes) == [i \in 1..(8 - Len(bytes)) |-> 0] \o bytes

SignExtend(bytes) ==
    [i \in 1..(8 - Len(bytes)) |-> IF bytes[1] >= 128 THEN 255 ELSE 0] \o bytes

(***************************************************************************)
(* Tags (bjd_tag_t).                                                       *)
(***************************************************************************)
BJDATA_TAG_ZERO == [type |-> bjd_type_missing, exttype |-> 0, v |-> 0]

bjd_tag_make_nil == [BJDATA_TAG_ZERO EXCEPT !.type = bjd_type_nil]

bjd_tag_make_bool(value) == [BJDATA_TAG_ZERO EXCEPT !.type = bjd_type_bool, !.v = value]

bjd_tag_make_int(value) == [BJDATA_TAG_ZERO EXCEPT !.type = bjd_type_int, !.v = value]

bjd_tag_make_uint(value) == [BJDATA_TAG_ZERO EXCEPT !.type = bjd_type_uint, !.v = value]

bjd_tag_make_float(value) == [BJDATA_TAG_ZERO EXCEPT !.type = bjd_type_float, !.v = value]

bjd_tag_make_double(value) == [BJDATA_TAG_ZERO EXCEPT !.type = bjd_type_double, !.v = value]

bjd_tag_make_array(count) == [BJDATA_TAG_ZERO EXCEPT !.type = bjd_type_array, !.v = count]

bjd_tag_make_map(count) == [BJDATA_TAG_ZERO EXCEPT !.type = bjd_type_map, !.v = count]

bjd_tag_make_str(length) == [BJDATA_TAG_ZERO EXCEPT !.type = bjd_type_str, !.v = length]

bjd_tag_make_huge(length) == [BJDATA_TAG_ZERO EXCEPT !.type = bjd_type_huge, !.v = length]

\* The reader builds the tag of a bin header with bjd_tag_make_bin, which the
\* sources use but do not define; its tag carries the kind the reader then
\* switches on, bjd_type_bin.
bjd_tag_make_bin(length) == [BJDATA_TAG_ZERO EXCEPT !.type = bjd_type_bin, !.v = length]

bjd_tag_make_ext(exttype, length) ==
    [BJDATA_TAG_ZERO EXCEPT !.type = bjd_type_ext, !.exttype = exttype, !.v = length]

bjd_tag_nil == bjd_tag_make_nil

\* A tag as the caller's record keeps it: its kind, its extension type and
\* its value as a sequence of numbers.
TagPlain(tag) ==
    [type |-> tag.type,
     exttype |-> tag.exttype,
     v |-> CASE tag.type = bjd_type_bool -> <<IF tag.v THEN 1 ELSE 0>>
             [] tag.type \in {bjd_type_int, bjd_type_uint, bjd_type_float, bjd_type_double} -> tag.v
             [] OTHER -> <<tag.v>>]

\* the position of a kind in the enumeration bjd_type_t
TypeOrder(type) ==
    CASE type = bjd_type_missing -> 0
      [] type = bjd_type_nil -> 1
      [] type = bjd_type_noop -> 2
      [] type = bjd_type_bool -> 3
      [] type = bjd_type_int -> 4
      [] type = bjd_type_uint -> 5
      [] type = bjd_type_float -> 6
      [] type = bjd_type_double -> 7
      [] type = bjd_type_str -> 8
      [] type = bjd_type_huge -> 9
      [] type = bjd_type_array -> 10
      [] type = bjd_type_map -> 11
      [] type = bjd_type_ext -> 12
      [] OTHER -> 13

\* memcmp of two byte tuples of the same length
bjd_memcmp(a, b) ==
    IF a = b THEN 0
    ELSE IF \E i \in 1..Len(a) : a[i] < b[i] /\ \A j \in 1..(i - 1) : a[j] = b[j] THEN 0 - 1
    ELSE 1

\* positive numbers may be stored as int; convert to uint
TagCanonical(tag) ==
    IF tag.type = bjd_type_int /\ i64_ge(tag.v, i64(0))
    THEN [tag EXCEPT !.type = bjd_type_uint]
    ELSE tag

bjd_tag_cmp(left_tag, right_tag) ==
    LET left == TagCanonical(left_tag)
        right == TagCanonical(right_tag)
    IN  IF left.type # right.type
        THEN (IF TypeOrder(left.type) < TypeOrder(right.type) THEN 0 - 1 ELSE 1)
        ELSE CASE left.type \in {bjd_type_missing, bjd_type_nil} -> 0
               [] left.type = bjd_type_bool ->
                    (IF left.v THEN 1 ELSE 0) - (IF right.v THEN 1 ELSE 0)
               [] left.type = bjd_type_int ->
                    IF left.v = right.v THEN 0
                    ELSE IF i64_lt(left.v, right.v) THEN 0 - 1 ELSE 1
               [] left.type = bjd_type_uint ->
                    IF left.v = right.v THEN 0
                    ELSE IF u64_lt(left.v, right.v) THEN 0 - 1 ELSE 1
               [] left.type \in {bjd_type_array, bjd_type_map, bjd_type_str, bjd_type_bin} ->
                    IF left.v = right.v THEN 0
                    ELSE IF left.v < right.v THEN 0 - 1 ELSE 1
               [] left.type = bjd_type_ext ->
                    IF left.exttype = right.exttype
                    THEN (IF left.v = right.v THEN 0
                          ELSE IF left.v < right.v THEN 0 - 1 ELSE 1)
                    ELSE left.exttype - right.exttype
               [] left.type \in {bjd_type_float, bjd_type_double} ->
                    bjd_memcmp(left.v, right.v)
               \* no case of the switch: "return false" after the assertion
               [] OTHER -> 0

bjd_tag_equal(left, right) == bjd_tag_cmp(left, right) = 0

(***************************************************************************)
(* State.  writer, reader and tree are the three instances; build holds    *)
(* the compile-time switches the code is conditional on.  monitor is a     *)
(* history variable: the compounds the caller has opened and how much of   *)
(* each it has used, recorded from the calls alone (not from the tracker). *)
(***************************************************************************)
VARIABLES writer, reader, tree, build, monitor

vars == <<writer, reader, tree, build, monitor>>

Byte == 0..255

Min(a, b) == IF a < b THEN a ELSE b

\* n bytes of payload; the content of payload bytes is never inspected
Payload(n) == [i \in 1..n |-> 97 + (i % 26)]

(***************************************************************************)
(* What the environment does during one call: whether the error callback   *)
(* leaves non-locally, whether an allocation succeeds, whether the         *)
(* teardown callback succeeds.                                             *)
(***************************************************************************)
NoEnv == [jump |-> FALSE, alloc_ok |-> TRUE, teardown_ok |-> TRUE]

(***************************************************************************)
(* Writer                                                                  *)
(***************************************************************************)
bjd_writer_buffer_used(w) == Len(w.buffer)

bjd_writer_buffer_left(w) == w.size - Len(w.buffer)

bjd_writer_buffer_size(w) == w.size

bjd_writer_error(w) == w.error

\* writer state after bjd_writer_init(writer, buffer, size)
bjd_writer_init(size) ==
    [buffer |-> << >>, size |-> size, error |-> bjd_ok,
     flush |-> "NULL", error_fn |-> FALSE, teardown |-> "NULL",
     track |-> bjd_track_init, version |-> bjd_version_current,
     sink |-> << >>, sink_room |-> 0, produced |-> << >>,
     target_set |-> FALSE, target_data |-> << >>, target_size |-> 0,
     flush_after_error |-> FALSE, teardown_before_flush |-> FALSE,
     error_calls |-> 0, error_arg |-> bjd_ok, flush_calls |-> 0, teardown_calls |-> 0,
     buffer_null |-> FALSE, frees |-> 0,
     destroy_calls |-> 0, life |-> "live", destroy_return |-> "none", jumped |-> FALSE, env |-> NoEnv]

bjd_writer_flag_error(w, error) ==
    IF w.jumped THEN w
    ELSE IF w.error = bjd_ok
    THEN [w EXCEPT !.error = error,
                   !.error_calls = IF w.error_fn THEN @ + 1 ELSE @,
                   !.error_arg = IF w.error_fn THEN error ELSE @,
                   !.jumped = w.error_fn /\ w.env.jump]
    ELSE w

\* bjd_writer_clear and the error: a writer without buffer or callbacks
bjd_writer_init_error(error) == [bjd_writer_init(0) EXCEPT !.error = error]

bjd_writer_flag_if_error(w, error) ==
    IF error # bjd_ok THEN bjd_writer_flag_error(w, error) ELSE w

bjd_writer_set_flush(w, flush) ==
    IF bjd_writer_buffer_size(w) < BJDATA_WRITER_MINIMUM_BUFFER_SIZE
    THEN bjd_writer_flag_error(w, bjd_error_bug)
    ELSE [w EXCEPT !.flush = flush]

bjd_writer_set_error_handler(w, error_fn) == [w EXCEPT !.error_fn = error_fn]

bjd_writer_set_teardown(w, teardown) == [w EXCEPT !.teardown = teardown]

bjd_writer_set_version(w, version) == [w EXCEPT !.version = version]

bjd_writer_track_push(w, type, count) ==
    IF w.jumped THEN w
    ELSE IF w.error = bjd_ok
    THEN LET r == bjd_track_push(w.track, type, count, w.env.alloc_ok)
         IN  bjd_writer_flag_if_error([w EXCEPT !.track = r.track], r.error)
    ELSE w

bjd_writer_track_pop(w, type) ==
    IF w.jumped THEN w
    ELSE IF w.error = bjd_ok
    THEN LET r == bjd_track_pop(w.track, type)
         IN  bjd_writer_flag_if_error([w EXCEPT !.track = r.track], r.error)
    ELSE w

bjd_writer_track_element(w) ==
    IF w.jumped THEN w
    ELSE IF w.error = bjd_ok
    THEN LET r == bjd_track_element(w.track)
         IN  bjd_writer_flag_if_error([w EXCEPT !.track = r.track], r.error)
    ELSE w

bjd_writer_track_bytes(w, count) ==
    IF w.jumped THEN w
    ELSE IF w.error = bjd_ok
    THEN LET r == bjd_track_bytes(w.track, count)
         IN  bjd_writer_flag_if_error([w EXCEPT !.track = r.track], r.error)
    ELSE w

\* A flush callback over a sink with room for sink_room more bytes (as
\* bjd_file_writer_flush over fwrite): it hands data to the sink and flags
\* bjd_error_io when the sink took fewer bytes than asked.
bjd_file_writer_flush(w, data) ==
    LET written == Min(w.sink_room, Len(data))
        called == [w EXCEPT !.flush_calls = @ + 1,
                            !.sink = @ \o SubSeq(data, 1, written),
                            !.sink_room = @ - written]
    IN  IF written # Len(data)
        THEN bjd_writer_flag_error(called, bjd_error_io)
        ELSE called

BJDATA_BUFFER_SIZE == 4096

\* new_size of bjd_growable_writer_flush: doubled until it holds "needed"
RECURSIVE GrownSize(_, _)
GrownSize(new_size, needed) ==
    IF new_size < needed THEN GrownSize(new_size * 2, needed) ELSE new_size

\* A growable flush that forgets the bytes of the buffer it was handed.
bjd_growable_writer_flush_emptying(w, data, own) ==
    LET called == [w EXCEPT !.flush_calls = @ + 1]
        grown(kept, extra) ==
            IF ~kept.env.alloc_ok THEN bjd_writer_flag_error(kept, bjd_error_memory)
            ELSE [kept EXCEPT !.size = GrownSize(kept.size * 2, Len(kept.buffer) + Len(extra)),
                              !.buffer = @ \o extra]
    IN  IF own
        THEN IF bjd_writer_buffer_used(called) = Len(data) THEN called
             ELSE grown(called, << >>)
        ELSE grown(called, data)

\* The flush callback of a growable writer.  "own" is data == writer->buffer.
\* The buffer is not emptied but grown: handed its own buffer while writing
\* (the position was rewound before the call) it restores the position and
\* doubles the buffer; handed other data it grows the buffer until the data
\* fits and appends it; the flush of destroy (position not rewound) does nothing.
bjd_growable_writer_flush(w, data, own) ==
    LET called == [w EXCEPT !.flush_calls = @ + 1]
        grown(kept, extra) ==
            IF ~kept.env.alloc_ok THEN bjd_writer_flag_error(kept, bjd_error_memory)
            ELSE [kept EXCEPT !.size = GrownSize(kept.size * 2, Len(kept.buffer) + Len(extra)),
                              !.buffer = @ \o extra]
    IN  IF own
        THEN IF bjd_writer_buffer_used(called) = Len(data) THEN called
             ELSE grown([called EXCEPT !.buffer = data], << >>)
        ELSE grown(called, data)

\* The teardown callback of a growable writer: without an error it shrinks a
\* buffer less than half used and hands buffer and length to the caller.
bjd_growable_writer_teardown(w) ==
    LET called == [w EXCEPT !.teardown_calls = @ + 1]
        used == bjd_writer_buffer_used(called)
        handed(shrunk) ==
            [shrunk EXCEPT !.target_set = TRUE,
                           !.target_data = shrunk.buffer,
                           !.target_size = bjd_writer_buffer_used(shrunk),
                           !.buffer = << >>,
                           !.buffer_null = TRUE]
    IN  IF bjd_writer_error(called) = bjd_ok
        THEN IF used < bjd_writer_buffer_size(called) \div 2
             THEN IF ~called.env.alloc_ok
                  \* the buffer is freed and writer->buffer still points at it
                  THEN bjd_writer_flag_error(
                            [called EXCEPT !.buffer = << >>, !.frees = @ + 1],
                            bjd_error_memory)
                  ELSE handed([called EXCEPT !.size = IF used # 0 THEN used ELSE 1])
             ELSE handed(called)
        ELSE IF ~called.buffer_null
        THEN [called EXCEPT !.buffer = << >>, !.frees = @ + 1, !.buffer_null = TRUE]
        ELSE called

\* writer->flush(writer, data, count), with own: data == writer->buffer
writer_flush(w, data, own) ==
    LET noted == [w EXCEPT !.flush_after_error = @ \/ w.error # bjd_ok,
                           !.teardown_before_flush = @ \/ w.teardown_calls > 0]
    IN  IF w.jumped THEN w
        ELSE IF w.flush = "growable" THEN bjd_growable_writer_flush(noted, data, own)
        ELSE bjd_file_writer_flush(noted, data)

\* a flush that hands the buffer to the sink and does not rewind it
bjd_writer_flush_unchecked_keeping(w) ==
    IF w.jumped THEN w
    ELSE writer_flush(w, w.buffer, TRUE)

\* writer->current is rewound to the start of the buffer before the callback
\* runs, so the buffer is empty while and after the sink takes the bytes
bjd_writer_flush_unchecked(w) ==
    IF w.jumped THEN w
    ELSE writer_flush([w EXCEPT !.buffer = << >>], w.buffer, TRUE)

bjd_writer_flush_message(w) ==
    IF w.error # bjd_ok THEN w
    ELSE LET checked == bjd_writer_flag_if_error(w, bjd_track_check_empty(w.track).error)
         IN  IF checked.jumped \/ checked.error # bjd_ok THEN checked
             ELSE IF checked.flush = "NULL" THEN bjd_writer_flag_error(checked, bjd_error_bug)
             ELSE IF bjd_writer_buffer_used(checked) > 0 THEN bjd_writer_flush_unchecked(checked)
             ELSE checked

\* *target_data = NULL and *target_size = 0, then a buffer of
\* BJDATA_BUFFER_SIZE bytes with the growable flush and teardown
bjd_writer_init_growable(alloc_ok) ==
    IF ~alloc_ok THEN bjd_writer_init_error(bjd_error_memory)
    ELSE bjd_writer_set_teardown(
            bjd_writer_set_flush(bjd_writer_init(BJDATA_BUFFER_SIZE), "growable"),
            "growable")

\* The result of a function that returns bool: the writer afterwards and the value.
Returned(w, ret) == [w |-> w, ret |-> ret]

bjd_writer_ensure(w, count) ==
    IF bjd_writer_error(w) # bjd_ok THEN Returned(w, FALSE)
    ELSE IF w.flush = "NULL" THEN Returned(bjd_writer_flag_error(w, bjd_error_too_big), FALSE)
    ELSE LET flushed == bjd_writer_flush_unchecked(w)
         IN  IF flushed.jumped \/ bjd_writer_error(flushed) # bjd_ok THEN Returned(flushed, FALSE)
             ELSE IF bjd_writer_buffer_left(flushed) >= count THEN Returned(flushed, TRUE)
             ELSE Returned(bjd_writer_flag_error(flushed, bjd_error_io), FALSE)

\* bjd_memcpy(writer->current, p, count); writer->current += count
writer_append(w, p) == [w EXCEPT !.buffer = @ \o p, !.produced = @ \o p]

bjd_write_native_straddle(w, p) ==
    IF bjd_writer_error(w) # bjd_ok THEN w
    ELSE IF w.flush = "NULL" THEN bjd_writer_flag_error(w, bjd_error_too_big)
    ELSE LET flushed == bjd_writer_flush_unchecked(w)
         IN  IF flushed.jumped \/ bjd_writer_error(flushed) # bjd_ok THEN flushed
             ELSE IF Len(p) > bjd_writer_buffer_left(flushed)
             THEN writer_flush([flushed EXCEPT !.produced = @ \o p], p, FALSE)
             ELSE writer_append(flushed, p)

bjd_write_native(w, p) ==
    IF w.jumped THEN w
    ELSE IF bjd_writer_buffer_left(w) < Len(p) THEN bjd_write_native_straddle(w, p)
    ELSE writer_append(w, p)

\* BJDATA_WRITE_ENCODED(encode_fn, size, ...): encoded is what encode_fn stores
BJDATA_WRITE_ENCODED(w, encoded) ==
    IF w.jumped THEN w
    ELSE IF bjd_writer_buffer_left(w) >= Len(encoded) THEN writer_append(w, encoded)
    ELSE LET ensured == bjd_writer_ensure(w, Len(encoded))
         IN  IF ensured.ret THEN writer_append(ensured.w, encoded) ELSE ensured.w

\* A teardown callback that releases a stream (as bjd_file_writer_teardown_close):
\* it flags bjd_error_io when closing fails.
bjd_file_writer_teardown_close(w) ==
    LET called == [w EXCEPT !.teardown_calls = @ + 1]
    IN  IF w.env.teardown_ok THEN called ELSE bjd_writer_flag_error(called, bjd_error_io)

\* writer->teardown(writer)
writer_teardown(w) ==
    IF w.teardown = "growable" THEN bjd_growable_writer_teardown(w)
    ELSE bjd_file_writer_teardown_close(w)

\* A destroy that flushes the buffer whether or not an error is latched.
bjd_writer_destroy_flushing(w) ==
    LET tracked == [w EXCEPT !.track = bjd_track_destroy(w.track, w.error # bjd_ok).track,
                             !.destroy_calls = @ + 1]
        flushed == IF bjd_writer_buffer_used(tracked) # 0 /\ tracked.flush # "NULL"
                   THEN LET f == writer_flush(tracked, tracked.buffer, TRUE)
                        IN  IF f.jumped THEN f ELSE [f EXCEPT !.flush = "NULL"]
                   ELSE tracked
        torn == IF flushed.jumped THEN flushed
                ELSE IF flushed.teardown # "NULL"
                THEN LET t == writer_teardown(flushed)
                     IN  IF t.jumped THEN t ELSE [t EXCEPT !.teardown = "NULL"]
                ELSE flushed
    IN  IF torn.jumped THEN [torn EXCEPT !.life = "jumped"]
        ELSE [torn EXCEPT !.life = "destroyed", !.destroy_return = torn.error]

\* A destroy that leaves out the teardown callback once an error is latched.
bjd_writer_destroy_abandoning(w) ==
    LET tracked == [w EXCEPT !.track = bjd_track_destroy(w.track, w.error # bjd_ok).track,
                             !.destroy_calls = @ + 1]
        flushed == IF bjd_writer_error(tracked) = bjd_ok
                      /\ bjd_writer_buffer_used(tracked) # 0 /\ tracked.flush # "NULL"
                   THEN LET f == writer_flush(tracked, tracked.buffer, TRUE)
                        IN  IF f.jumped THEN f ELSE [f EXCEPT !.flush = "NULL"]
                   ELSE tracked
        torn == IF flushed.jumped THEN flushed
                ELSE IF flushed.teardown # "NULL" /\ bjd_writer_error(flushed) = bjd_ok
                THEN LET t == writer_teardown(flushed)
                     IN  IF t.jumped THEN t ELSE [t EXCEPT !.teardown = "NULL"]
                ELSE flushed
    IN  IF torn.jumped THEN [torn EXCEPT !.life = "jumped"]
        ELSE [torn EXCEPT !.life = "destroyed", !.destroy_return = torn.error]

bjd_writer_destroy(w) ==
    LET tracked == [w EXCEPT !.track = bjd_track_destroy(w.track, w.error # bjd_ok).track,
                             !.destroy_calls = @ + 1]
        flushed == IF bjd_writer_error(tracked) = bjd_ok
                      /\ bjd_writer_buffer_used(tracked) # 0 /\ tracked.flush # "NULL"
                   THEN LET f == writer_flush(tracked, tracked.buffer, TRUE)
                        IN  IF f.jumped THEN f ELSE [f EXCEPT !.flush = "NULL"]
                   ELSE tracked
        torn == IF flushed.jumped THEN flushed
                ELSE IF flushed.teardown # "NULL"
                THEN LET t == writer_teardown(flushed)
                     IN  IF t.jumped THEN t ELSE [t EXCEPT !.teardown = "NULL"]
                ELSE flushed
    IN  IF torn.jumped THEN [torn EXCEPT !.life = "jumped"]
        ELSE [torn EXCEPT !.life = "destroyed", !.destroy_return = torn.error]

(***************************************************************************)
(* Network-endian stores of the fixed-width fields of a header.            *)
(***************************************************************************)
bjd_store_u8(value) == <<value>>

bjd_store_u16(value) == <<value \div 256, value % 256>>

bjd_store_u32(value) ==
    <<value \div 16777216, (value \div 65536) % 256, (value \div 256) % 256, value % 256>>

\* an int8_t exttype as the byte that holds it
bjd_store_i8(value) == <<IF value < 0 THEN value + 256 ELSE value>>

UINT8_MAX == 255
UINT16_MAX == 65535
SIZE_MAX == 2147483647

bjd_write_byte_element(w, value) ==
    LET tracked == bjd_writer_track_element(w)
    IN  IF tracked.jumped THEN tracked
        ELSE IF bjd_writer_buffer_left(tracked) >= 1 THEN writer_append(tracked, <<value>>)
        ELSE LET ensured == bjd_writer_ensure(tracked, 1)
             IN  IF ensured.ret THEN writer_append(ensured.w, <<value>>) ELSE ensured.w

bjd_write_nil(w) == bjd_write_byte_element(w, 192)

bjd_write_bool(w, value) == bjd_write_byte_element(w, IF value THEN 195 ELSE 194)

bjd_write_u64(w, value) ==
    LET tracked == bjd_writer_track_element(w)
    IN  IF u64_le(value, u64(127))
        THEN BJDATA_WRITE_ENCODED(tracked, Truncate(value, 1))
        ELSE IF u64_le(value, u64(UINT8_MAX))
        THEN BJDATA_WRITE_ENCODED(tracked, <<204>> \o Truncate(value, 1))
        ELSE IF u64_le(value, u64(UINT16_MAX))
        THEN BJDATA_WRITE_ENCODED(tracked, <<205>> \o Truncate(value, 2))
        ELSE IF u64_le(value, UINT32_MAX_u64)
        THEN BJDATA_WRITE_ENCODED(tracked, <<206>> \o Truncate(value, 4))
        ELSE BJDATA_WRITE_ENCODED(tracked, <<207>> \o value)

\* bjd_write_i64 writing every value beyond the fixint range in the 64-bit
\* signed form.
bjd_write_i64_widest(w, value) ==
    LET tracked == bjd_writer_track_element(w)
    IN  IF i64_ge(value, i64(0 - 32)) /\ ~i64_lt(i64(127), value)
        THEN BJDATA_WRITE_ENCODED(tracked, Truncate(value, 1))
        ELSE BJDATA_WRITE_ENCODED(tracked, <<211>> \o value)

bjd_write_i64(w, value) ==
    LET tracked == bjd_writer_track_element(w)
    IN  IF i64_ge(value, i64(0 - 32))
        THEN IF ~i64_lt(i64(127), value)
             THEN BJDATA_WRITE_ENCODED(tracked, Truncate(value, 1))
             ELSE IF ~i64_lt(u64(UINT8_MAX), value)
             THEN BJDATA_WRITE_ENCODED(tracked, <<204>> \o Truncate(value, 1))
             ELSE IF ~i64_lt(u64(UINT16_MAX), value)
             THEN BJDATA_WRITE_ENCODED(tracked, <<205>> \o Truncate(value, 2))
             ELSE IF ~i64_lt(UINT32_MAX_u64, value)
             THEN BJDATA_WRITE_ENCODED(tracked, <<206>> \o Truncate(value, 4))
             ELSE BJDATA_WRITE_ENCODED(tracked, <<207>> \o value)
        ELSE IF i64_ge(value, INT8_MIN_i64)
        THEN BJDATA_WRITE_ENCODED(tracked, <<208>> \o Truncate(value, 1))
        ELSE IF i64_ge(value, INT16_MIN_i64)
        THEN BJDATA_WRITE_ENCODED(tracked, <<209>> \o Truncate(value, 2))
        ELSE IF i64_ge(value, INT32_MIN_i64)
        THEN BJDATA_WRITE_ENCODED(tracked, <<210>> \o Truncate(value, 4))
        ELSE BJDATA_WRITE_ENCODED(tracked, <<211>> \o value)

bjd_write_int(w, value) == bjd_write_i64(w, value)

bjd_write_uint(w, value) == bjd_write_u64(w, value)

bjd_write_float(w, value) ==
    BJDATA_WRITE_ENCODED(bjd_writer_track_element(w), <<202>> \o value)

bjd_write_double(w, value) ==
    BJDATA_WRITE_ENCODED(bjd_writer_track_element(w), <<203>> \o value)

bjd_encode_array(count) ==
    IF count <= 15 THEN bjd_store_u8(144 + count)
    ELSE IF count <= UINT16_MAX THEN <<220>> \o bjd_store_u16(count)
    ELSE <<221>> \o bjd_store_u32(count)

bjd_start_array(w, count) ==
    bjd_writer_track_push(
        BJDATA_WRITE_ENCODED(bjd_writer_track_element(w), bjd_encode_array(count)),
        bjd_type_array, count)

bjd_encode_map(count) ==
    IF count <= 15 THEN bjd_store_u8(128 + count)
    ELSE IF count <= UINT16_MAX THEN <<222>> \o bjd_store_u16(count)
    ELSE <<223>> \o bjd_store_u32(count)

bjd_start_map(w, count) ==
    bjd_writer_track_push(
        BJDATA_WRITE_ENCODED(bjd_writer_track_element(w), bjd_encode_map(count)),
        bjd_type_map, count)

bjd_encode_str(count, version) ==
    IF count <= 31 THEN bjd_store_u8(160 + count)
    ELSE IF count <= UINT8_MAX /\ version >= bjd_version_v5 THEN <<217>> \o bjd_store_u8(count)
    ELSE IF count <= UINT16_MAX THEN <<218>> \o bjd_store_u16(count)
    ELSE <<219>> \o bjd_store_u32(count)

\* bjd_start_str_notrack choosing the header as a v5 writer does, whatever
\* the writer's version.
bjd_start_str_notrack_modern(w, count) ==
    BJDATA_WRITE_ENCODED(w, bjd_encode_str(count, bjd_version_v5))

bjd_start_str_notrack(w, count) ==
    BJDATA_WRITE_ENCODED(w, bjd_encode_str(count, w.version))

bjd_encode_bin(count) ==
    IF count <= UINT8_MAX THEN <<196>> \o bjd_store_u8(count)
    ELSE IF count <= UINT16_MAX THEN <<197>> \o bjd_store_u16(count)
    ELSE <<198>> \o bjd_store_u32(count)

bjd_start_bin_notrack(w, count) ==
    IF w.jumped THEN w
    ELSE IF w.version <= bjd_version_v4 THEN bjd_start_str_notrack(w, count)
    ELSE BJDATA_WRITE_ENCODED(w, bjd_encode_bin(count))

bjd_start_str(w, count) ==
    bjd_writer_track_push(
        bjd_start_str_notrack(bjd_writer_track_element(w), count),
        bjd_type_str, count)

bjd_start_bin(w, count) ==
    bjd_writer_track_push(
        bjd_start_bin_notrack(bjd_writer_track_element(w), count),
        bjd_type_huge, count)

bjd_encode_ext(exttype, count) ==
    IF count = 1 THEN <<212>> \o bjd_store_i8(exttype)
    ELSE IF count = 2 THEN <<213>> \o bjd_store_i8(exttype)
    ELSE IF count = 4 THEN <<214>> \o bjd_store_i8(exttype)
    ELSE IF count = 8 THEN <<215>> \o bjd_store_i8(exttype)
    ELSE IF count = 16 THEN <<216>> \o bjd_store_i8(exttype)
    ELSE IF count <= UINT8_MAX THEN <<199>> \o bjd_store_u8(count) \o bjd_store_i8(exttype)
    ELSE IF count <= UINT16_MAX THEN <<200>> \o bjd_store_u16(count) \o bjd_store_i8(exttype)
    ELSE <<201>> \o bjd_store_u32(count) \o bjd_store_i8(exttype)

\* compiled only with BJDATA_EXTENSIONS
bjd_start_ext(w, exttype, count) ==
    IF w.version <= bjd_version_v4 THEN bjd_writer_flag_error(w, bjd_error_bug)
    ELSE bjd_writer_track_push(
            BJDATA_WRITE_ENCODED(bjd_writer_track_element(w), bjd_encode_ext(exttype, count)),
            bjd_type_ext, count)

BJDATA_TIMESTAMP_NANOSECONDS_MAX == 999999999

BJDATA_EXTTYPE_TIMESTAMP == -1

bjd_encode_timestamp_4(seconds) ==
    bjd_encode_ext(BJDATA_EXTTYPE_TIMESTAMP, 4) \o Truncate(seconds, 4)

\* ((uint64_t)nanoseconds << 34) | (uint64_t)seconds, byte by byte
bjd_encode_timestamp_8(seconds, nanoseconds) ==
    bjd_encode_ext(BJDATA_EXTTYPE_TIMESTAMP, 8)
        \o << nanoseconds \div 4194304,
               (nanoseconds \div 16384) % 256,
               (nanoseconds \div 64) % 256,
               (nanoseconds % 64) * 4 + (seconds[4] % 4) >>
        \o Truncate(seconds, 4)

bjd_encode_timestamp_12(seconds, nanoseconds) ==
    bjd_encode_ext(BJDATA_EXTTYPE_TIMESTAMP, 12) \o bjd_store_u32(nanoseconds) \o seconds

bjd_write_timestamp(w, seconds, nanoseconds) ==
    IF w.version <= bjd_version_v4 THEN bjd_writer_flag_error(w, bjd_error_bug)
    ELSE IF nanoseconds > BJDATA_TIMESTAMP_NANOSECONDS_MAX
    THEN bjd_writer_flag_error(w, bjd_error_bug)
    ELSE LET tracked == bjd_writer_track_element(w)
         IN  IF i64_lt(seconds, i64(0)) \/ i64_ge(seconds, <<0, 0, 0, 4, 0, 0, 0, 0>>)
             THEN BJDATA_WRITE_ENCODED(tracked, bjd_encode_timestamp_12(seconds, nanoseconds))
             ELSE IF i64_lt(UINT32_MAX_u64, seconds) \/ nanoseconds > 0
             THEN BJDATA_WRITE_ENCODED(tracked, bjd_encode_timestamp_8(seconds, nanoseconds))
             ELSE BJDATA_WRITE_ENCODED(tracked, bjd_encode_timestamp_4(seconds))

bjd_write_bytes(w, data) ==
    bjd_write_native(bjd_writer_track_bytes(w, Len(data)), data)

bjd_finish_array(w) == bjd_writer_track_pop(w, bjd_type_array)

bjd_finish_map(w) == bjd_writer_track_pop(w, bjd_type_map)

bjd_finish_str(w) == bjd_writer_track_pop(w, bjd_type_str)

bjd_finish_bin(w) == bjd_writer_track_pop(w, bjd_type_bin)

bjd_finish_ext(w) == bjd_writer_track_pop(w, bjd_type_ext)

bjd_finish_type(w, type) == bjd_writer_track_pop(w, type)

bjd_write_str(w, data) ==
    LET count == Len(data)
        tracked == bjd_writer_track_element(w)
    IN  IF tracked.jumped THEN tracked
        ELSE IF count <= 31
        THEN BJDATA_WRITE_ENCODED(tracked, bjd_store_u8(160 + count) \o data)
        ELSE IF count <= UINT8_MAX /\ tracked.version >= bjd_version_v5
        THEN IF count + 2 <= bjd_writer_buffer_left(tracked)
             THEN writer_append(tracked, <<217>> \o bjd_store_u8(count) \o data)
             ELSE bjd_write_native(
                    BJDATA_WRITE_ENCODED(tracked, <<217>> \o bjd_store_u8(count)), data)
        ELSE IF count <= UINT16_MAX
        THEN bjd_write_native(
                BJDATA_WRITE_ENCODED(tracked, <<218>> \o bjd_store_u16(count)), data)
        ELSE bjd_write_native(
                BJDATA_WRITE_ENCODED(tracked, <<219>> \o bjd_store_u32(count)), data)

bjd_write_bin(w, data) ==
    bjd_finish_bin(bjd_write_bytes(bjd_start_bin(w, Len(data)), data))

bjd_write_ext(w, exttype, data) ==
    bjd_finish_ext(bjd_write_bytes(bjd_start_ext(w, exttype, Len(data)), data))


bjd_write_tag(w, value) ==
    CASE value.type = bjd_type_missing -> bjd_writer_flag_error(w, bjd_error_bug)
      [] value.type = bjd_type_nil -> bjd_write_nil(w)
      [] value.type = bjd_type_bool -> bjd_write_bool(w, value.v)
      [] value.type = bjd_type_float -> bjd_write_float(w, value.v)
      [] value.type = bjd_type_double -> bjd_write_double(w, value.v)
      [] value.type = bjd_type_int -> bjd_write_int(w, value.v)
      [] value.type = bjd_type_uint -> bjd_write_uint(w, value.v)
      [] value.type = bjd_type_str -> bjd_start_str(w, value.v)
      [] value.type = bjd_type_huge -> bjd_start_bin(w, value.v)
      [] value.type = bjd_type_ext /\ build.BJDATA_EXTENSIONS ->
            bjd_start_ext(w, value.exttype, value.v)
      [] value.type = bjd_type_array -> bjd_start_array(w, value.v)
      [] value.type = bjd_type_map -> bjd_start_map(w, value.v)
      \* unrecognized type
      [] OTHER -> bjd_writer_flag_error(w, bjd_error_bug)

(***************************************************************************)
(* Reader.  "data" holds the bytes between reader->data and reader->end;   *)
(* "source" holds the bytes the fill callback has not delivered yet.       *)
(***************************************************************************)
BJDATA_READER_MINIMUM_BUFFER_SIZE == 32
BJDATA_READER_SMALL_FRACTION_DENOMINATOR == 32

bjd_reader_error(r) == r.error

ReaderZero ==
    [data |-> << >>, size |-> 0, error |-> bjd_ok,
     fill |-> "NULL", skip |-> "NULL", error_fn |-> FALSE, teardown |-> "NULL",
     track |-> bjd_track_init,
     source |-> << >>, feof |-> FALSE, chunk |-> 0, fill_calls |-> 0,
     error_calls |-> 0, error_arg |-> bjd_ok, teardown_calls |-> 0,
     destroy_calls |-> 0, life |-> "live", destroy_return |-> "none", jumped |-> FALSE, env |-> NoEnv]

\* bjd_reader_init(reader, buffer, size, count) over a buffer holding "data"
bjd_reader_init(size, data) == [ReaderZero EXCEPT !.size = size, !.data = data]

bjd_reader_init_data(data) == [ReaderZero EXCEPT !.data = data]

\* A latch that takes every error flagged, not only the first: what the
\* write-once property rules out.
bjd_reader_flag_error_overwriting(r, error) ==
    IF r.jumped THEN r
    ELSE [r EXCEPT !.error = error,
                   !.data = << >>,
                   !.error_calls = IF r.error_fn THEN @ + 1 ELSE @,
                   !.error_arg = IF r.error_fn THEN error ELSE @,
                   !.jumped = r.error_fn /\ r.env.jump]

bjd_reader_flag_error(r, error) ==
    IF r.jumped THEN r
    ELSE IF r.error = bjd_ok
    THEN [r EXCEPT !.error = error,
                   !.data = << >>,
                   !.error_calls = IF r.error_fn THEN @ + 1 ELSE @,
                   !.error_arg = IF r.error_fn THEN error ELSE @,
                   !.jumped = r.error_fn /\ r.env.jump]
    ELSE r

bjd_reader_flag_if_error(r, error) ==
    IF error # bjd_ok THEN bjd_reader_flag_error(r, error) ELSE r

bjd_reader_set_fill(r, fill) ==
    IF r.size = 0 THEN bjd_reader_flag_error(r, bjd_error_bug)
    ELSE IF r.size < BJDATA_READER_MINIMUM_BUFFER_SIZE
    THEN bjd_reader_flag_error(r, bjd_error_bug)
    ELSE [r EXCEPT !.fill = fill]

bjd_reader_set_error_handler(r, error_fn) == [r EXCEPT !.error_fn = error_fn]

bjd_reader_set_teardown(r, teardown) == [r EXCEPT !.teardown = teardown]

\* BJDATA_READER_TRACK(reader, error_expr), with the tracker the expression leaves
BJDATA_READER_TRACK(r, tracked) ==
    IF r.jumped THEN r
    ELSE IF r.error = bjd_ok
    THEN bjd_reader_flag_if_error([r EXCEPT !.track = tracked.track], tracked.error)
    ELSE r

bjd_reader_track_element(r) == BJDATA_READER_TRACK(r, bjd_track_element(r.track))

bjd_reader_track_peek_element(r) == BJDATA_READER_TRACK(r, bjd_track_peek_element(r.track))

bjd_reader_track_bytes(r, count) == BJDATA_READER_TRACK(r, bjd_track_bytes(r.track, count))

bjd_reader_track_str_bytes_all(r, count) ==
    BJDATA_READER_TRACK(r, bjd_track_str_bytes_all(r.track, count))

\* The result of a function that fills a destination: the reader afterwards
\* and the bytes delivered.
Filled(r, p) == [r |-> r, p |-> p]

\* A fill callback over a stream (as bjd_file_reader_fill over fread): at
\* end of file it flags bjd_error_eof; otherwise it delivers up to "chunk"
\* of the bytes asked for, and the stream is at end of file once it ran short.
FillReturned(r, p, read) == [r |-> r, p |-> p, read |-> read]

bjd_file_reader_fill(r, count) ==
    LET asked == Min(count, r.chunk)
        n == Min(asked, Len(r.source))
        called == [r EXCEPT !.fill_calls = @ + 1]
    IN  IF r.feof THEN FillReturned(bjd_reader_flag_error(called, bjd_error_eof), << >>, 0)
        ELSE FillReturned([called EXCEPT !.source = SubSeq(@, n + 1, Len(@)),
                                         !.feof = n < asked],
                          SubSeq(r.source, 1, n), n)

\* A caller's fill callback over the same kind of stream that reports a
\* stream with nothing to give by returning (size_t)-1.
fill_returning_minus(r, count) ==
    LET n == Min(Min(count, r.chunk), Len(r.source))
        called == [r EXCEPT !.fill_calls = @ + 1]
    IN  IF n = 0 THEN FillReturned(called, << >>, SIZE_MAX)
        ELSE FillReturned([called EXCEPT !.source = SubSeq(@, n + 1, Len(@))],
                          SubSeq(r.source, 1, n), n)

\* reader->fill(reader, p, count)
reader_fill(r, count) ==
    IF r.fill = "minus" THEN fill_returning_minus(r, count)
    ELSE bjd_file_reader_fill(r, count)

RECURSIVE bjd_fill_range_from(_, _, _, _)
bjd_fill_range_from(r, got, min_bytes, max_bytes) ==
    LET after(f) ==
            IF f.r.jumped \/ bjd_reader_error(f.r) # bjd_ok THEN Filled(f.r, << >>)
            ELSE IF f.read = 0 \/ f.read = SIZE_MAX
            THEN Filled(bjd_reader_flag_error(f.r, bjd_error_io), << >>)
            ELSE bjd_fill_range_from(f.r, got \o f.p, min_bytes, max_bytes)
    IN  IF Len(got) >= min_bytes THEN Filled(r, got)
        ELSE after(reader_fill(r, max_bytes - Len(got)))

bjd_fill_range(r, min_bytes, max_bytes) == bjd_fill_range_from(r, << >>, min_bytes, max_bytes)

\* The result of a function that returns bool: the reader afterwards and the value.
Ensured(r, ret) == [r |-> r, ret |-> ret]

\* An ensure that lets what it fills take the place of the unread bytes.
bjd_reader_ensure_straddle_dropping(r, count) ==
    IF r.fill = "NULL" THEN Ensured(bjd_reader_flag_error(r, bjd_error_invalid), FALSE)
    ELSE IF count > r.size THEN Ensured(bjd_reader_flag_error(r, bjd_error_too_big), FALSE)
    ELSE LET left == Len(r.data)
             after(f) ==
                IF f.r.jumped \/ bjd_reader_error(f.r) # bjd_ok THEN Ensured(f.r, FALSE)
                ELSE Ensured([f.r EXCEPT !.data = f.p], TRUE)
         IN  after(bjd_fill_range(r, count - left, r.size - left))

bjd_reader_ensure_straddle(r, count) ==
    IF r.fill = "NULL" THEN Ensured(bjd_reader_flag_error(r, bjd_error_invalid), FALSE)
    ELSE IF count > r.size THEN Ensured(bjd_reader_flag_error(r, bjd_error_too_big), FALSE)
    ELSE LET left == Len(r.data)
             after(f) ==
                IF f.r.jumped \/ bjd_reader_error(f.r) # bjd_ok THEN Ensured(f.r, FALSE)
                ELSE Ensured([f.r EXCEPT !.data = @ \o f.p], TRUE)
         IN  after(bjd_fill_range(r, count - left, r.size - left))

bjd_reader_ensure(r, count) ==
    IF count <= Len(r.data) THEN Ensured(r, TRUE)
    ELSE bjd_reader_ensure_straddle(r, count)

bjd_read_bytes_inplace_notrack(r, count) ==
    IF bjd_reader_error(r) # bjd_ok THEN Filled(r, << >>)
    ELSE IF Len(r.data) >= count
    THEN Filled([r EXCEPT !.data = SubSeq(@, count + 1, Len(@))], SubSeq(r.data, 1, count))
    ELSE LET after(e) ==
                IF ~e.ret THEN Filled(e.r, << >>)
                ELSE Filled([e.r EXCEPT !.data = SubSeq(@, count + 1, Len(@))],
                            SubSeq(e.r.data, 1, count))
         IN  after(bjd_reader_ensure(r, count))

Zeroes(count) == [i \in 1..count |-> 0]

\* bjd_read_native_straddle leaving reader->data at the start of the buffer it
\* refilled, so that the bytes copied out are read again
bjd_read_native_straddle_rereading(r, count) ==
    IF bjd_reader_error(r) # bjd_ok THEN Filled(r, Zeroes(count))
    ELSE IF count <= Len(r.data)
    THEN Filled(bjd_reader_flag_error(r, bjd_error_bug), Zeroes(count))
    ELSE IF r.fill = "NULL"
    THEN Filled(bjd_reader_flag_error(r, bjd_error_invalid), Zeroes(count))
    ELSE IF r.size = 0
    THEN Filled(bjd_reader_flag_error(r, bjd_error_io), Zeroes(count))
    ELSE LET left == r.data
             rest == count - Len(left)
             flushed == [r EXCEPT !.data = << >>]
             small(f) ==
                IF f.r.jumped \/ bjd_reader_error(f.r) # bjd_ok
                THEN Filled(f.r, left)
                ELSE Filled([f.r EXCEPT !.data = f.p],
                            left \o SubSeq(f.p, 1, rest))
             large(f) == Filled(f.r, left \o f.p)
         IN  IF rest <= r.size \div BJDATA_READER_SMALL_FRACTION_DENOMINATOR
             THEN small(bjd_fill_range(flushed, rest, r.size))
             ELSE large(bjd_fill_range(flushed, rest, rest))

bjd_read_native_straddle(r, count) ==
    IF bjd_reader_error(r) # bjd_ok THEN Filled(r, Zeroes(count))
    ELSE IF count <= Len(r.data)
    THEN Filled(bjd_reader_flag_error(r, bjd_error_bug), Zeroes(count))
    ELSE IF r.fill = "NULL"
    THEN Filled(bjd_reader_flag_error(r, bjd_error_invalid), Zeroes(count))
    ELSE IF r.size = 0
    THEN Filled(bjd_reader_flag_error(r, bjd_error_io), Zeroes(count))
    ELSE LET left == r.data
             rest == count - Len(left)
             flushed == [r EXCEPT !.data = << >>]
             small(f) ==
                IF f.r.jumped \/ bjd_reader_error(f.r) # bjd_ok
                THEN Filled(f.r, left)
                ELSE Filled([f.r EXCEPT !.data = SubSeq(f.p, rest + 1, Len(f.p))],
                            left \o SubSeq(f.p, 1, rest))
             large(f) == Filled(f.r, left \o f.p)
         IN  IF rest <= r.size \div BJDATA_READER_SMALL_FRACTION_DENOMINATOR
             THEN small(bjd_fill_range(flushed, rest, r.size))
             ELSE large(bjd_fill_range(flushed, rest, rest))

bjd_read_native(r, count) ==
    IF r.jumped THEN Filled(r, << >>)
    ELSE IF count > Len(r.data) THEN bjd_read_native_straddle(r, count)
    ELSE Filled([r EXCEPT !.data = SubSeq(@, count + 1, Len(@))], SubSeq(r.data, 1, count))

RECURSIVE bjd_reader_skip_using_fill(_, _)
bjd_reader_skip_using_fill(r, count) ==
    LET whole(f) ==
            IF f.r.jumped THEN f.r
            ELSE IF Len(f.p) < r.size THEN bjd_reader_flag_error(f.r, bjd_error_io)
            ELSE bjd_reader_skip_using_fill(f.r, count - r.size)
        last(f) ==
            IF f.r.jumped THEN f.r
            ELSE IF Len(f.p) < count THEN bjd_reader_flag_error(f.r, bjd_error_io)
            ELSE [f.r EXCEPT !.data = SubSeq(f.p, count + 1, Len(f.p))]
    IN  IF count > r.size THEN whole(bjd_fill_range(r, r.size, r.size))
        ELSE last(bjd_fill_range(r, count, r.size))

bjd_skip_bytes_straddle(r, count) ==
    IF r.fill = "NULL" THEN bjd_reader_flag_error(r, bjd_error_invalid)
    ELSE bjd_reader_skip_using_fill([r EXCEPT !.data = << >>], count - Len(r.data))

bjd_skip_bytes(r, count) ==
    IF bjd_reader_error(r) # bjd_ok THEN r
    ELSE LET after(tracked) ==
                IF tracked.jumped THEN tracked
                ELSE IF Len(tracked.data) >= count
                THEN [tracked EXCEPT !.data = SubSeq(@, count + 1, Len(@))]
                ELSE bjd_skip_bytes_straddle(tracked, count)
         IN  after(bjd_reader_track_bytes(r, count))

bjd_read_bytes(r, count) == bjd_read_native(bjd_reader_track_bytes(r, count), count)

\* A read that leaves the error callback in place: the callback then runs
\* in bjd_reader_flag_error and again when the caller reports the error.
bjd_read_native_witherrorfn(r, count) == bjd_read_native(r, count)

\* bjd_read_native with the error callback taken out for the duration
bjd_read_native_noerrorfn(r, count) ==
    LET restored(f) == Filled([f.r EXCEPT !.error_fn = r.error_fn], f.p)
    IN  restored(bjd_read_native([r EXCEPT !.error_fn = FALSE], count))

\* reader->error_fn(reader, error), called outside bjd_reader_flag_error
reader_error_fn(r, error) ==
    [r EXCEPT !.error_calls = @ + 1, !.error_arg = error, !.jumped = r.env.jump]

bjd_read_bytes_alloc_impl(r, count, null_terminated) ==
    LET report(f) ==
            IF bjd_reader_error(f.r) # bjd_ok
            THEN Filled(IF f.r.error_fn
                        THEN reader_error_fn(f.r, bjd_reader_error(f.r))
                        ELSE f.r,
                        << >>)
            ELSE Filled(f.r, IF null_terminated THEN f.p \o <<0>> ELSE f.p)
        after(tracked) ==
            IF tracked.jumped \/ bjd_reader_error(tracked) # bjd_ok THEN Filled(tracked, << >>)
            ELSE IF count = 0 /\ ~null_terminated THEN Filled(tracked, << >>)
            ELSE IF ~tracked.env.alloc_ok
            THEN Filled(bjd_reader_flag_error(tracked, bjd_error_memory), << >>)
            ELSE report(bjd_read_native_noerrorfn(tracked, count))
    IN  after(bjd_reader_track_bytes(r, count))

(***************************************************************************)
(* Network-endian loads of the fixed-width fields of a header.             *)
(***************************************************************************)
bjd_load_u8(p) == p[1]

bjd_load_u16(p) == p[1] * 256 + p[2]

\* a length or count of 32 bits; the model's inputs keep it below 2^31
bjd_load_u32(p) == p[1] * 16777216 + p[2] * 65536 + p[3] * 256 + p[4]

\* the int8_t exttype held by a byte
bjd_load_i8(p) == IF p[1] >= 128 THEN p[1] - 256 ELSE p[1]

\* The result of bjd_parse_tag: the reader afterwards, the tag, and the
\* number of header bytes (0 on failure).
Parsed(r, tag, count) == [r |-> r, tag |-> tag, count |-> count]

\* a header of "size" bytes whose tag is made from the bytes after the first
ParseSized(r, size, make(_)) ==
    LET after(e) ==
            IF ~e.ret THEN Parsed(e.r, BJDATA_TAG_ZERO, 0)
            ELSE Parsed(e.r, make(SubSeq(e.r.data, 2, size)), size)
    IN  after(bjd_reader_ensure(r, size))

ParseByte(r, type) ==
    CASE type <= 127 -> Parsed(r, bjd_tag_make_uint(ZeroExtend(<<type>>)), 1)
      [] type >= 224 -> Parsed(r, bjd_tag_make_int(SignExtend(<<type>>)), 1)
      [] type \in 128..143 -> Parsed(r, bjd_tag_make_map(type - 128), 1)
      [] type \in 144..159 -> Parsed(r, bjd_tag_make_array(type - 144), 1)
      [] type \in 160..191 -> Parsed(r, bjd_tag_make_str(type - 160), 1)
      [] type = 192 -> Parsed(r, bjd_tag_make_nil, 1)
      [] type \in {194, 195} -> Parsed(r, bjd_tag_make_bool(type % 2 = 1), 1)
      [] type = 196 -> ParseSized(r, 2, LAMBDA p : bjd_tag_make_bin(bjd_load_u8(p)))
      [] type = 197 -> ParseSized(r, 3, LAMBDA p : bjd_tag_make_bin(bjd_load_u16(p)))
      [] type = 198 -> ParseSized(r, 5, LAMBDA p : bjd_tag_make_bin(bjd_load_u32(p)))
      [] type = 199 /\ build.BJDATA_EXTENSIONS ->
            ParseSized(r, 3, LAMBDA p :
                bjd_tag_make_ext(bjd_load_i8(SubSeq(p, 2, 2)), bjd_load_u8(p)))
      [] type = 200 /\ build.BJDATA_EXTENSIONS ->
            ParseSized(r, 4, LAMBDA p :
                bjd_tag_make_ext(bjd_load_i8(SubSeq(p, 3, 3)), bjd_load_u16(p)))
      [] type = 201 /\ build.BJDATA_EXTENSIONS ->
            ParseSized(r, 6, LAMBDA p :
                bjd_tag_make_ext(bjd_load_i8(SubSeq(p, 5, 5)), bjd_load_u32(p)))
      [] type = 202 -> ParseSized(r, 5, LAMBDA p : bjd_tag_make_float(p))
      [] type = 203 -> ParseSized(r, 9, LAMBDA p : bjd_tag_make_double(p))
      [] type = 204 -> ParseSized(r, 2, LAMBDA p : bjd_tag_make_uint(ZeroExtend(p)))
      [] type = 205 -> ParseSized(r, 3, LAMBDA p : bjd_tag_make_uint(ZeroExtend(p)))
      [] type = 206 -> ParseSized(r, 5, LAMBDA p : bjd_tag_make_uint(ZeroExtend(p)))
      [] type = 207 -> ParseSized(r, 9, LAMBDA p : bjd_tag_make_uint(ZeroExtend(p)))
      [] type = 208 -> ParseSized(r, 2, LAMBDA p : bjd_tag_make_int(SignExtend(p)))
      [] type = 209 -> ParseSized(r, 3, LAMBDA p : bjd_tag_make_int(SignExtend(p)))
      [] type = 210 -> ParseSized(r, 5, LAMBDA p : bjd_tag_make_int(SignExtend(p)))
      [] type = 211 -> ParseSized(r, 9, LAMBDA p : bjd_tag_make_int(SignExtend(p)))
      [] type = 212 /\ build.BJDATA_EXTENSIONS ->
            ParseSized(r, 2, LAMBDA p : bjd_tag_make_ext(bjd_load_i8(p), 1))
      [] type = 213 /\ build.BJDATA_EXTENSIONS ->
            ParseSized(r, 2, LAMBDA p : bjd_tag_make_ext(bjd_load_i8(p), 2))
      [] type = 214 /\ build.BJDATA_EXTENSIONS ->
            ParseSized(r, 2, LAMBDA p : bjd_tag_make_ext(bjd_load_i8(p), 4))
      [] type = 215 /\ build.BJDATA_EXTENSIONS ->
            ParseSized(r, 2, LAMBDA p : bjd_tag_make_ext(bjd_load_i8(p), 8))
      [] type = 216 /\ build.BJDATA_EXTENSIONS ->
            ParseSized(r, 2, LAMBDA p : bjd_tag_make_ext(bjd_load_i8(p), 16))
      [] type = 217 -> ParseSized(r, 2, LAMBDA p : bjd_tag_make_str(bjd_load_u8(p)))
      [] type = 218 -> ParseSized(r, 3, LAMBDA p : bjd_tag_make_str(bjd_load_u16(p)))
      [] type = 219 -> ParseSized(r, 5, LAMBDA p : bjd_tag_make_str(bjd_load_u32(p)))
      [] type = 220 -> ParseSized(r, 3, LAMBDA p : bjd_tag_make_array(bjd_load_u16(p)))
      [] type = 221 -> ParseSized(r, 5, LAMBDA p : bjd_tag_make_array(bjd_load_u32(p)))
      [] type = 222 -> ParseSized(r, 3, LAMBDA p : bjd_tag_make_map(bjd_load_u16(p)))
      [] type = 223 -> ParseSized(r, 5, LAMBDA p : bjd_tag_make_map(bjd_load_u32(p)))
      [] type = 193 -> Parsed(bjd_reader_flag_error(r, bjd_error_invalid), BJDATA_TAG_ZERO, 0)
      \* ext and fixext headers in a build without extensions
      [] OTHER -> Parsed(bjd_reader_flag_error(r, bjd_error_unsupported), BJDATA_TAG_ZERO, 0)

\* bjd_parse_tag taking the ext and fixext opcodes of a build without
\* extensions for the reserved byte
bjd_parse_tag_reserving(r) ==
    LET after(e) ==
            IF ~e.ret THEN Parsed(e.r, BJDATA_TAG_ZERO, 0)
            ELSE IF bjd_load_u8(e.r.data) \in {199, 200, 201} \cup (212..216)
                    /\ ~build.BJDATA_EXTENSIONS
            THEN Parsed(bjd_reader_flag_error(e.r, bjd_error_invalid), BJDATA_TAG_ZERO, 0)
            ELSE ParseByte(e.r, bjd_load_u8(e.r.data))
    IN  after(bjd_reader_ensure(r, 1))

bjd_parse_tag(r) ==
    LET after(e) ==
            IF ~e.ret THEN Parsed(e.r, BJDATA_TAG_ZERO, 0)
            ELSE ParseByte(e.r, bjd_load_u8(e.r.data))
    IN  after(bjd_reader_ensure(r, 1))

\* The result of a function that returns a tag: the reader afterwards and the tag.
Tagged(r, tag) == [r |-> r, tag |-> tag]

\* bjd_read_tag counting the element in the tracker before it looks at the
\* latched error
bjd_read_tag_unguarded(r) ==
    IF bjd_reader_error(r) # bjd_ok
    THEN Tagged([r EXCEPT !.track = bjd_track_element(r.track).track], bjd_tag_nil)
    ELSE LET track(parsed, pushed) ==
                IF pushed.error # bjd_ok
                THEN Tagged(bjd_reader_flag_error(parsed.r, pushed.error), bjd_tag_nil)
                ELSE Tagged([parsed.r EXCEPT
                                !.track = pushed.track,
                                !.data = SubSeq(@, parsed.count + 1, Len(@))],
                            parsed.tag)
             read(parsed) ==
                IF parsed.count = 0 THEN Tagged(parsed.r, bjd_tag_nil)
                ELSE IF parsed.tag.type \in {bjd_type_map, bjd_type_array}
                        \/ (parsed.tag.type = bjd_type_ext /\ build.BJDATA_EXTENSIONS)
                        \/ parsed.tag.type \in {bjd_type_str, bjd_type_bin}
                THEN track(parsed, bjd_track_push(parsed.r.track, parsed.tag.type,
                                                  parsed.tag.v, parsed.r.env.alloc_ok))
                ELSE track(parsed, TrackResult(bjd_ok, parsed.r.track))
             after(tracked) ==
                IF tracked.jumped \/ bjd_reader_error(tracked) # bjd_ok
                THEN Tagged(tracked, bjd_tag_nil)
                ELSE read(bjd_parse_tag(tracked))
         IN  after(bjd_reader_track_element(r))

bjd_read_tag(r) ==
    IF bjd_reader_error(r) # bjd_ok THEN Tagged(r, bjd_tag_nil)
    ELSE LET track(parsed, pushed) ==
                IF pushed.error # bjd_ok
                THEN Tagged(bjd_reader_flag_error(parsed.r, pushed.error), bjd_tag_nil)
                ELSE Tagged([parsed.r EXCEPT
                                !.track = pushed.track,
                                !.data = SubSeq(@, parsed.count + 1, Len(@))],
                            parsed.tag)
             read(parsed) ==
                IF parsed.count = 0 THEN Tagged(parsed.r, bjd_tag_nil)
                ELSE IF parsed.tag.type \in {bjd_type_map, bjd_type_array}
                        \/ (parsed.tag.type = bjd_type_ext /\ build.BJDATA_EXTENSIONS)
                        \/ parsed.tag.type \in {bjd_type_str, bjd_type_bin}
                THEN track(parsed, bjd_track_push(parsed.r.track, parsed.tag.type,
                                                  parsed.tag.v, parsed.r.env.alloc_ok))
                ELSE track(parsed, TrackResult(bjd_ok, parsed.r.track))
             after(tracked) ==
                IF tracked.jumped \/ bjd_reader_error(tracked) # bjd_ok
                THEN Tagged(tracked, bjd_tag_nil)
                ELSE read(bjd_parse_tag(tracked))
         IN  after(bjd_reader_track_element(r))

\* bjd_peek_tag moving the read position past the tag it returns
bjd_peek_tag_advancing(r) ==
    IF bjd_reader_error(r) # bjd_ok THEN Tagged(r, bjd_tag_nil)
    ELSE LET peeked(parsed) ==
                IF parsed.count = 0 THEN Tagged(parsed.r, bjd_tag_nil)
                ELSE Tagged([parsed.r EXCEPT !.data = SubSeq(@, parsed.count + 1, Len(@))],
                            parsed.tag)
             after(tracked) ==
                IF tracked.jumped \/ bjd_reader_error(tracked) # bjd_ok
                THEN Tagged(tracked, bjd_tag_nil)
                ELSE peeked(bjd_parse_tag(tracked))
         IN  after(bjd_reader_track_peek_element(r))

bjd_peek_tag(r) ==
    IF bjd_reader_error(r) # bjd_ok THEN Tagged(r, bjd_tag_nil)
    ELSE LET peeked(parsed) ==
                IF parsed.count = 0 THEN Tagged(parsed.r, bjd_tag_nil)
                ELSE Tagged(parsed.r, parsed.tag)
             after(tracked) ==
                IF tracked.jumped \/ bjd_reader_error(tracked) # bjd_ok
                THEN Tagged(tracked, bjd_tag_nil)
                ELSE peeked(bjd_parse_tag(tracked))
         IN  after(bjd_reader_track_peek_element(r))

bjd_done_type(r, type) ==
    IF r.jumped THEN r
    ELSE IF bjd_reader_error(r) = bjd_ok
    THEN LET popped == bjd_track_pop(r.track, type)
         IN  bjd_reader_flag_if_error([r EXCEPT !.track = popped.track], popped.error)
    ELSE r

bjd_done_array(r) == bjd_done_type(r, bjd_type_array)

bjd_done_map(r) == bjd_done_type(r, bjd_type_map)

bjd_done_str(r) == bjd_done_type(r, bjd_type_str)

bjd_done_bin(r) == bjd_done_type(r, bjd_type_huge)

bjd_done_ext(r) == bjd_done_type(r, bjd_type_ext)

\* The result of bjd_read_timestamp: the reader afterwards and the timestamp
\* returned, its seconds an int64_t and its nanoseconds a uint32_t held in the
\* low half of eight bytes.
Stamped(r, seconds, nanoseconds) ==
    [r |-> r, timestamp |-> [seconds |-> seconds, nanoseconds |-> nanoseconds]]

\* the timestamp the payload of "size" bytes decodes to, before its
\* nanoseconds are checked
TimestampDecoded(buf, size) ==
    CASE size = 4 -> [seconds |-> ZeroExtend(buf), nanoseconds |-> u64(0)]
      [] size = 8 ->
            [seconds |-> <<0, 0, 0, buf[4] % 4>> \o SubSeq(buf, 5, 8),
             nanoseconds |-> u64(buf[1] * 4194304 + buf[2] * 16384 + buf[3] * 64
                                    + (buf[4] \div 4))]
      [] OTHER ->
            [seconds |-> SubSeq(buf, 5, 12), nanoseconds |-> ZeroExtend(SubSeq(buf, 1, 4))]

\* bjd_read_timestamp without the check of the nanoseconds
bjd_read_timestamp_unchecked(r, size) ==
    IF size \notin {4, 8, 12}
    THEN Stamped(bjd_reader_flag_error(r, bjd_error_invalid), i64(0), u64(0))
    ELSE LET decoded(done, buf) ==
                IF done.jumped \/ bjd_reader_error(done) # bjd_ok
                THEN Stamped(done, i64(0), u64(0))
                ELSE Stamped(done, TimestampDecoded(buf, size).seconds,
                             TimestampDecoded(buf, size).nanoseconds)
             after(read) == decoded(bjd_done_ext(read.r), read.p)
         IN  after(bjd_read_bytes(r, size))

bjd_read_timestamp(r, size) ==
    IF size \notin {4, 8, 12}
    THEN Stamped(bjd_reader_flag_error(r, bjd_error_invalid), i64(0), u64(0))
    ELSE LET decoded(done, buf) ==
                IF done.jumped \/ bjd_reader_error(done) # bjd_ok
                THEN Stamped(done, i64(0), u64(0))
                ELSE IF u64_lt(u64(BJDATA_TIMESTAMP_NANOSECONDS_MAX),
                               TimestampDecoded(buf, size).nanoseconds)
                THEN Stamped(bjd_reader_flag_error(done, bjd_error_invalid), i64(0), u64(0))
                ELSE Stamped(done, TimestampDecoded(buf, size).seconds,
                             TimestampDecoded(buf, size).nanoseconds)
             after(read) == decoded(bjd_done_ext(read.r), read.p)
         IN  after(bjd_read_bytes(r, size))

\* bjd_discard: the reader after one value has been read and thrown away.
\* DiscardArray and DiscardMap are the loops over the children of an array
\* and over the pairs of a map; both stop at the first error.
RECURSIVE bjd_discard(_)
RECURSIVE DiscardArray(_, _)
RECURSIVE DiscardMap(_, _)
DiscardArray(r, n) ==
    LET after(d) ==
            IF d.jumped \/ bjd_reader_error(d) # bjd_ok THEN d
            ELSE DiscardArray(d, n - 1)
    IN  IF n = 0 THEN r ELSE after(bjd_discard(r))

DiscardMap(r, n) ==
    LET after(d) ==
            IF d.jumped \/ bjd_reader_error(d) # bjd_ok THEN d
            ELSE DiscardMap(d, n - 1)
    IN  IF n = 0 THEN r ELSE after(bjd_discard(bjd_discard(r)))

bjd_discard(r) ==
    LET after(read) ==
            IF read.r.jumped \/ bjd_reader_error(read.r) # bjd_ok THEN read.r
            ELSE CASE read.tag.type = bjd_type_str ->
                        bjd_done_str(bjd_skip_bytes(read.r, read.tag.v))
                   [] read.tag.type = bjd_type_bin ->
                        bjd_done_bin(bjd_skip_bytes(read.r, read.tag.v))
                   [] read.tag.type = bjd_type_ext /\ build.BJDATA_EXTENSIONS ->
                        bjd_done_ext(bjd_skip_bytes(read.r, read.tag.v))
                   [] read.tag.type = bjd_type_array ->
                        bjd_done_array(DiscardArray(read.r, read.tag.v))
                   [] read.tag.type = bjd_type_map ->
                        bjd_done_map(DiscardMap(read.r, read.tag.v))
                   [] OTHER -> read.r
    IN  IF r.jumped THEN r ELSE after(bjd_read_tag(r))

\* A teardown callback that closes a stream (as bjd_file_reader_teardown_close):
\* it flags bjd_error_io when closing fails, then lets go of the buffer.
bjd_file_reader_teardown_close(r) ==
    LET called == [r EXCEPT !.teardown_calls = @ + 1]
        closed == IF r.env.teardown_ok THEN called
                  ELSE bjd_reader_flag_error(called, bjd_error_io)
    IN  IF closed.jumped THEN closed
        ELSE [closed EXCEPT !.size = 0, !.fill = "NULL", !.skip = "NULL",
                            !.teardown = "NULL"]

bjd_reader_destroy(r) ==
    LET tracked == bjd_track_destroy(r.track, bjd_reader_error(r) # bjd_ok)
        returned(torn) ==
            IF torn.jumped THEN [torn EXCEPT !.life = "jumped"]
            ELSE [torn EXCEPT !.teardown = "NULL", !.life = "destroyed",
                              !.destroy_return = torn.error]
        teardown(flagged) ==
            IF flagged.jumped THEN returned(flagged)
            ELSE IF flagged.teardown # "NULL"
            THEN returned(bjd_file_reader_teardown_close(flagged))
            ELSE returned(flagged)
    IN  teardown(bjd_reader_flag_if_error([r EXCEPT !.track = tracked.track,
                                                    !.destroy_calls = @ + 1],
                                          tracked.error))

(***************************************************************************)
(* The tree.  "data" holds the bytes at tree->data (data_length is its     *)
(* length), "size" the bytes of the message parsed so far; "buffer" tells  *)
(* whether the tree owns a buffer, "pool" whether the caller gave a node   *)
(* pool, "next" counts the pages allocated.  The parser's stack is the     *)
(* sequence of the "left" counts of its levels 0..level.  "nodes" are the  *)
(* nodes completed so far, in the order they were parsed.  A stream tree   *)
(* reads from "source", at most "chunk" bytes a call; "pending" is the     *)
(* part of the message that has not reached the stream yet.                *)
(***************************************************************************)
BJDATA_NODES_PER_PAGE == 255

BJDATA_NODE_INITIAL_DEPTH == 8

bjd_tree_parse_state_not_started == "not_started"
bjd_tree_parse_state_in_progress == "in_progress"
bjd_tree_parse_state_parsed == "parsed"

bjd_tree_error(t) == t.error

bjd_tree_init_clear ==
    [data |-> << >>, size |-> 0, node_count |-> 0,
     max_size |-> SIZE_MAX, max_nodes |-> SIZE_MAX,
     error |-> bjd_ok, error_fn |-> FALSE, read_fn |-> "NULL", teardown |-> "NULL",
     buffer |-> FALSE, buffer_capacity |-> 0,
     pool |-> FALSE, pool_count |-> 0, next |-> 0,
     parser |-> [state |-> bjd_tree_parse_state_not_started,
                 possible_nodes_left |-> 0, nodes_left |-> 0,
                 current_node_reserved |-> 0, stack |-> << >>,
                 stack_capacity |-> 0, stack_owned |-> FALSE],
     nodes |-> << >>,
     source |-> << >>, pending |-> << >>, chunk |-> 0,
     error_calls |-> 0, error_arg |-> bjd_ok, teardown_calls |-> 0,
     frees |-> 0,
     destroy_calls |-> 0, life |-> "live", destroy_return |-> "none",
     parse_return |-> "none", starved |-> FALSE,
     answer |-> [call |-> "none", node |-> 0, value |-> << >>, count |-> 0,
                 flag |-> FALSE, type |-> bjd_type_missing],
     jumped |-> FALSE, env |-> NoEnv]

bjd_tree_flag_error(t, error) ==
    IF t.jumped THEN t
    ELSE IF t.error = bjd_ok
    THEN [t EXCEPT !.error = error,
                   !.error_calls = IF t.error_fn THEN @ + 1 ELSE @,
                   !.error_arg = IF t.error_fn THEN error ELSE @,
                   !.jumped = t.error_fn /\ t.env.jump]
    ELSE t

bjd_tree_set_error_handler(t, error_fn) == [t EXCEPT !.error_fn = error_fn]

bjd_tree_set_teardown(t, teardown) == [t EXCEPT !.teardown = teardown]

bjd_tree_set_limits(t, max_message_size, max_message_nodes) ==
    [t EXCEPT !.max_size = max_message_size, !.max_nodes = max_message_nodes]

bjd_tree_init_data(data) == [bjd_tree_init_clear EXCEPT !.data = data]

bjd_tree_init_pool(data, node_pool_count) ==
    IF node_pool_count = 0
    THEN bjd_tree_flag_error(bjd_tree_init_clear, bjd_error_bug)
    ELSE [bjd_tree_init_clear EXCEPT !.data = data, !.pool = TRUE,
                                     !.pool_count = node_pool_count]

bjd_tree_init_error(error) == [bjd_tree_init_clear EXCEPT !.error = error]

bjd_tree_init_stream(read_fn, max_message_size, max_message_nodes) ==
    bjd_tree_set_limits([bjd_tree_init_clear EXCEPT !.read_fn = read_fn],
                        max_message_size, max_message_nodes)

\* The result of a function that returns bool: the tree afterwards and the value.
TreeRet(t, ret) == [t |-> t, ret |-> ret]

\* new_capacity of bjd_tree_reserve_fill: doubled until it holds "needed"
RECURSIVE TreeCapacity(_, _)
TreeCapacity(capacity, needed) ==
    IF capacity < needed THEN TreeCapacity(capacity * 2, needed) ELSE capacity

\* the do-while of bjd_tree_reserve_fill over a read function that delivers
\* what the stream holds, and 0 when nothing is there yet
RECURSIVE bjd_tree_reserve_read(_, _)
bjd_tree_reserve_read(t, bytes) ==
    LET read == Min(Min(t.buffer_capacity - Len(t.data), t.chunk), Len(t.source))
        again(filled) ==
            IF filled.parser.possible_nodes_left < bytes
            THEN bjd_tree_reserve_read(filled, bytes)
            ELSE TreeRet(filled, TRUE)
    IN  IF read = 0 THEN TreeRet([t EXCEPT !.starved = TRUE], FALSE)
        ELSE again([t EXCEPT !.data = @ \o SubSeq(t.source, 1, read),
                             !.starved = FALSE,
                             !.source = SubSeq(@, read + 1, Len(@)),
                             !.parser.possible_nodes_left = @ + read])

bjd_tree_reserve_fill(t) ==
    LET bytes == t.parser.current_node_reserved
        needed == Len(t.data) + bytes
        new_capacity == Min(TreeCapacity(IF t.buffer_capacity = 0 THEN BJDATA_BUFFER_SIZE
                                         ELSE t.buffer_capacity, needed),
                            t.max_size)
    IN  IF needed > t.max_size THEN TreeRet(bjd_tree_flag_error(t, bjd_error_too_big), FALSE)
        ELSE IF t.read_fn = "NULL"
        THEN TreeRet(bjd_tree_flag_error(t, bjd_error_invalid), FALSE)
        ELSE IF needed > t.buffer_capacity
        THEN IF ~t.env.alloc_ok
             THEN TreeRet(bjd_tree_flag_error(t, bjd_error_memory), FALSE)
             ELSE bjd_tree_reserve_read([t EXCEPT !.buffer = TRUE,
                                                  !.buffer_capacity = new_capacity], bytes)
        ELSE bjd_tree_reserve_read(t, bytes)

bjd_tree_reserve_bytes(t, extra_bytes) ==
    LET fill(reserved) ==
            IF reserved.parser.current_node_reserved <= reserved.parser.possible_nodes_left
            THEN TreeRet(reserved, TRUE)
            ELSE bjd_tree_reserve_fill(reserved)
    IN  IF t.parser.current_node_reserved + extra_bytes > SIZE_MAX
        THEN TreeRet(bjd_tree_flag_error(t, bjd_error_invalid), FALSE)
        ELSE fill([t EXCEPT !.parser.current_node_reserved = @ + extra_bytes])

bjd_tree_push_stack(t, total) ==
    LET parser == t.parser
        push(u) == TreeRet([u EXCEPT !.parser.stack = Append(@, total)], TRUE)
    IN  IF total = 0 THEN TreeRet(t, TRUE)
        ELSE IF Len(parser.stack) = parser.stack_capacity
        THEN IF t.env.alloc_ok
             THEN push([t EXCEPT !.parser.stack_capacity = @ * 2,
                                 !.parser.stack_owned = TRUE])
             ELSE TreeRet(bjd_tree_flag_error(t, bjd_error_memory), FALSE)
        ELSE push(t)

\* bjd_tree_parse_children taking the nodes of the children before it has
\* reserved their bytes
bjd_tree_parse_children_unreserved(t, node) ==
    LET total == IF node.type = bjd_type_map THEN node.len * 2 ELSE node.len
        taken == [t EXCEPT !.node_count = @ + total, !.parser.nodes_left = @ - total]
        after(reserved) ==
            IF ~reserved.ret THEN reserved ELSE bjd_tree_push_stack(reserved.t, total)
    IN  after(bjd_tree_reserve_bytes(taken, total))

\* bjd_tree_parse_children handing out children past the end of a fixed pool.
bjd_tree_parse_children_overrunning(t, node) ==
    LET total == IF node.type = bjd_type_map THEN node.len * 2 ELSE node.len
        counted == [t EXCEPT !.node_count = @ + total]
        page(r) ==
            IF total <= r.parser.nodes_left \/ r.next = 0
            THEN bjd_tree_push_stack([r EXCEPT !.parser.nodes_left = @ - total], total)
            ELSE IF ~r.env.alloc_ok
            THEN TreeRet(bjd_tree_flag_error(r, bjd_error_memory), FALSE)
            ELSE IF total > BJDATA_NODES_PER_PAGE
                    \/ r.parser.nodes_left > BJDATA_NODES_PER_PAGE \div 8
            THEN bjd_tree_push_stack([r EXCEPT !.next = @ + 1], total)
            ELSE bjd_tree_push_stack(
                    [r EXCEPT !.next = @ + 1,
                              !.parser.nodes_left = BJDATA_NODES_PER_PAGE - total], total)
        after(reserved) == IF ~reserved.ret THEN reserved ELSE page(reserved.t)
    IN  IF counted.node_count > t.max_nodes
        THEN TreeRet(bjd_tree_flag_error(counted, bjd_error_too_big), FALSE)
        ELSE after(bjd_tree_reserve_bytes(counted, total))

bjd_tree_parse_children(t, node) ==
    LET total == IF node.type = bjd_type_map THEN node.len * 2 ELSE node.len
        counted == [t EXCEPT !.node_count = @ + total]
        page(r) ==
            IF total <= r.parser.nodes_left
            THEN bjd_tree_push_stack([r EXCEPT !.parser.nodes_left = @ - total], total)
            ELSE IF r.next = 0
            THEN TreeRet(bjd_tree_flag_error(r, bjd_error_too_big), FALSE)
            ELSE IF ~r.env.alloc_ok
            THEN TreeRet(bjd_tree_flag_error(r, bjd_error_memory), FALSE)
            ELSE IF total > BJDATA_NODES_PER_PAGE
                    \/ r.parser.nodes_left > BJDATA_NODES_PER_PAGE \div 8
            THEN bjd_tree_push_stack([r EXCEPT !.next = @ + 1], total)
            ELSE bjd_tree_push_stack(
                    [r EXCEPT !.next = @ + 1,
                              !.parser.nodes_left = BJDATA_NODES_PER_PAGE - total], total)
        after(reserved) == IF ~reserved.ret THEN reserved ELSE page(reserved.t)
    IN  IF counted.node_count > t.max_nodes
        THEN TreeRet(bjd_tree_flag_error(counted, bjd_error_too_big), FALSE)
        ELSE after(bjd_tree_reserve_bytes(counted, total))

bjd_tree_parse_bytes(t, node) == bjd_tree_reserve_bytes(t, node.len)

bjd_tree_parse_ext(t, node) ==
    bjd_tree_parse_bytes([t EXCEPT !.parser.current_node_reserved = @ + 1], node)

\* A node as the parser fills it in: its type, its length (compounds), and
\* its value: the bytes of a number, a bool, or the offset of its payload.
TreeNode(type, len, value) == [type |-> type, len |-> len, value |-> value]

\* The result of parsing one node: the tree afterwards, whether the node is
\* complete, and the node.
TreeParsed(result, node) == [t |-> result.t, ret |-> result.ret, node |-> node]

\* the "n" bytes after the type byte of the node being parsed
TreeField(t, n) == SubSeq(t.data, t.size + 2, t.size + 1 + n)

TreeScalar(t, type, value) == TreeParsed(TreeRet(t, TRUE), TreeNode(type, 0, value))

TreeChildren(t, type, len) ==
    LET node == TreeNode(type, len, 0)
    IN  TreeParsed(bjd_tree_parse_children(t, node), node)

TreeBytes(t, type, len) ==
    LET node == TreeNode(type, len, t.size + t.parser.current_node_reserved + 1)
    IN  TreeParsed(bjd_tree_parse_bytes(t, node), node)

TreeExt(t, len) ==
    LET node == TreeNode(bjd_type_ext, len, t.size + t.parser.current_node_reserved + 2)
    IN  TreeParsed(bjd_tree_parse_ext(t, node), node)

\* a node with "n" more header bytes, completed by "rest" once they are reserved
TreeSized(t, n, rest(_, _)) ==
    LET after(reserved) ==
            IF ~reserved.ret THEN TreeParsed(reserved, TreeNode(bjd_type_missing, 0, 0))
            ELSE rest(reserved.t, TreeField(reserved.t, n))
    IN  after(bjd_tree_reserve_bytes(t, n))

TreeParseByte(t, type) ==
    CASE type <= 127 -> TreeScalar(t, bjd_type_uint, ZeroExtend(<<type>>))
      [] type >= 224 -> TreeScalar(t, bjd_type_int, SignExtend(<<type>>))
      [] type \in 128..143 -> TreeChildren(t, bjd_type_map, type - 128)
      [] type \in 144..159 -> TreeChildren(t, bjd_type_array, type - 144)
      [] type \in 160..191 -> TreeBytes(t, bjd_type_str, type - 160)
      [] type = 192 -> TreeScalar(t, bjd_type_nil, 0)
      [] type \in {194, 195} -> TreeScalar(t, bjd_type_bool, type % 2 = 1)
      [] type = 196 ->
            TreeSized(t, 1, LAMBDA u, p : TreeBytes(u, bjd_type_huge, bjd_load_u8(p)))
      [] type = 197 ->
            TreeSized(t, 2, LAMBDA u, p : TreeBytes(u, bjd_type_huge, bjd_load_u16(p)))
      [] type = 198 ->
            TreeSized(t, 4, LAMBDA u, p : TreeBytes(u, bjd_type_huge, bjd_load_u32(p)))
      [] type = 199 /\ build.BJDATA_EXTENSIONS ->
            TreeSized(t, 1, LAMBDA u, p : TreeExt(u, bjd_load_u8(p)))
      [] type = 200 /\ build.BJDATA_EXTENSIONS ->
            TreeSized(t, 2, LAMBDA u, p : TreeExt(u, bjd_load_u16(p)))
      [] type = 201 /\ build.BJDATA_EXTENSIONS ->
            TreeSized(t, 4, LAMBDA u, p : TreeExt(u, bjd_load_u32(p)))
      [] type = 202 -> TreeSized(t, 4, LAMBDA u, p : TreeScalar(u, bjd_type_float, p))
      [] type = 203 -> TreeSized(t, 8, LAMBDA u, p : TreeScalar(u, bjd_type_double, p))
      [] type \in 204..207 ->
            TreeSized(t, 2 ^ (type - 204),
                      LAMBDA u, p : TreeScalar(u, bjd_type_uint, ZeroExtend(p)))
      [] type \in 208..211 ->
            TreeSized(t, 2 ^ (type - 208),
                      LAMBDA u, p : TreeScalar(u, bjd_type_int, SignExtend(p)))
      [] type \in 212..216 /\ build.BJDATA_EXTENSIONS -> TreeExt(t, 2 ^ (type - 212))
      [] type = 217 ->
            TreeSized(t, 1, LAMBDA u, p : TreeBytes(u, bjd_type_str, bjd_load_u8(p)))
      [] type = 218 ->
            TreeSized(t, 2, LAMBDA u, p : TreeBytes(u, bjd_type_str, bjd_load_u16(p)))
      [] type = 219 ->
            TreeSized(t, 4, LAMBDA u, p : TreeBytes(u, bjd_type_str, bjd_load_u32(p)))
      [] type = 220 ->
            TreeSized(t, 2, LAMBDA u, p : TreeChildren(u, bjd_type_array, bjd_load_u16(p)))
      [] type = 221 ->
            TreeSized(t, 4, LAMBDA u, p : TreeChildren(u, bjd_type_array, bjd_load_u32(p)))
      [] type = 222 ->
            TreeSized(t, 2, LAMBDA u, p : TreeChildren(u, bjd_type_map, bjd_load_u16(p)))
      [] type = 223 ->
            TreeSized(t, 4, LAMBDA u, p : TreeChildren(u, bjd_type_map, bjd_load_u32(p)))
      [] type = 193 ->
            TreeParsed(TreeRet(bjd_tree_flag_error(t, bjd_error_invalid), FALSE),
                       TreeNode(bjd_type_missing, 0, 0))
      \* ext and fixext headers in a build without extensions
      [] OTHER ->
            TreeParsed(TreeRet(bjd_tree_flag_error(t, bjd_error_unsupported), FALSE),
                       TreeNode(bjd_type_missing, 0, 0))

\* bjd_tree_parse_node_contents reading the reserved byte as nil
bjd_tree_parse_node_contents_reserved_nil(t) ==
    LET type == bjd_load_u8(SubSeq(t.data, t.size + 1, t.size + 1))
    IN  TreeParseByte([t EXCEPT !.parser.current_node_reserved = 0],
                      IF type = 193 THEN 192 ELSE type)

bjd_tree_parse_node_contents(t) ==
    TreeParseByte([t EXCEPT !.parser.current_node_reserved = 0],
                  bjd_load_u8(SubSeq(t.data, t.size + 1, t.size + 1)))

bjd_tree_parse_node(t) ==
    LET node_size(node, reserved) ==
            CASE node.type = bjd_type_array -> reserved + 1 - node.len
              [] node.type = bjd_type_map -> reserved + 1 - node.len * 2
              [] OTHER -> reserved + 1
        after(contents) ==
            IF ~contents.ret THEN TreeRet(contents.t, FALSE)
            ELSE TreeRet([contents.t EXCEPT
                            !.parser.possible_nodes_left = @ - contents.t.parser.current_node_reserved,
                            !.size = @ + node_size(contents.node,
                                                   contents.t.parser.current_node_reserved),
                            !.nodes = Append(@, contents.node)],
                         TRUE)
    IN  after(bjd_tree_parse_node_contents(t))

\* the levels left once the empty ones are popped; level 0 stays
RECURSIVE TreePopped(_)
TreePopped(stack) ==
    IF stack[Len(stack)] = 0 /\ Len(stack) > 1
    THEN TreePopped(SubSeq(stack, 1, Len(stack) - 1))
    ELSE stack

RECURSIVE TreeLoop(_)
TreeLoop(t) ==
    LET level == Len(t.parser.stack)
        next(popped) ==
            IF popped.parser.stack = <<0>> THEN TreeRet(popped, TRUE) ELSE TreeLoop(popped)
        after(parsed) ==
            IF ~parsed.ret THEN TreeRet(parsed.t, FALSE)
            ELSE next([parsed.t EXCEPT
                        !.parser.stack = TreePopped([@ EXCEPT ![level] = @ - 1])])
    IN  after(bjd_tree_parse_node(t))

bjd_tree_continue_parsing(t) ==
    IF bjd_tree_error(t) # bjd_ok THEN TreeRet(t, FALSE) ELSE TreeLoop(t)

bjd_tree_cleanup(t) == [t EXCEPT !.parser.stack_owned = FALSE, !.next = 0]

\* bjd_tree_parse_start going back to the first byte of the message just parsed
bjd_tree_parse_start_rewinding(t) ==
    LET cleaned == IF t.parser.state = bjd_tree_parse_state_parsed
                   THEN bjd_tree_cleanup(t) ELSE t
        started == [cleaned EXCEPT !.parser.state = bjd_tree_parse_state_in_progress,
                                   !.parser.current_node_reserved = 0]
        advanced == IF started.size > 0
                    THEN [started EXCEPT !.size = 0, !.node_count = 0]
                    ELSE started
        root(paged) ==
            TreeRet([paged EXCEPT !.parser.nodes_left = @ - 1,
                                  !.parser.stack = <<1>>,
                                  !.nodes = << >>],
                    TRUE)
        page(first) ==
            IF ~first.pool
            THEN IF ~first.env.alloc_ok
                 THEN TreeRet([first EXCEPT !.error = bjd_error_memory], FALSE)
                 ELSE root([first EXCEPT !.next = 1,
                                         !.parser.nodes_left = BJDATA_NODES_PER_PAGE])
            ELSE root([first EXCEPT !.parser.nodes_left = first.pool_count])
        after(reserved) ==
            IF ~reserved.ret
            THEN TreeRet([reserved.t EXCEPT
                            !.parser.state = bjd_tree_parse_state_not_started], FALSE)
            ELSE page([reserved.t EXCEPT !.parser.possible_nodes_left = @ - 1,
                                         !.node_count = 1,
                                         !.parser.stack_capacity = BJDATA_NODE_INITIAL_DEPTH,
                                         !.parser.stack_owned = FALSE])
    IN  IF bjd_tree_error(t) # bjd_ok THEN TreeRet(t, FALSE)
        ELSE after(bjd_tree_reserve_bytes(
                    [advanced EXCEPT !.parser.possible_nodes_left = Len(advanced.data)], 1))

bjd_tree_parse_start(t) ==
    LET cleaned == IF t.parser.state = bjd_tree_parse_state_parsed
                   THEN bjd_tree_cleanup(t) ELSE t
        started == [cleaned EXCEPT !.parser.state = bjd_tree_parse_state_in_progress,
                                   !.parser.current_node_reserved = 0]
        advanced == IF started.size > 0
                    THEN [started EXCEPT !.data = SubSeq(@, started.size + 1, Len(@)),
                                         !.size = 0, !.node_count = 0]
                    ELSE started
        root(paged) ==
            TreeRet([paged EXCEPT !.parser.nodes_left = @ - 1,
                                  !.parser.stack = <<1>>,
                                  !.nodes = << >>],
                    TRUE)
        page(first) ==
            IF ~first.pool
            THEN IF ~first.env.alloc_ok
                 THEN TreeRet([first EXCEPT !.error = bjd_error_memory], FALSE)
                 ELSE root([first EXCEPT !.next = 1,
                                         !.parser.nodes_left = BJDATA_NODES_PER_PAGE])
            ELSE root([first EXCEPT !.parser.nodes_left = first.pool_count])
        after(reserved) ==
            IF ~reserved.ret
            THEN TreeRet([reserved.t EXCEPT
                            !.parser.state = bjd_tree_parse_state_not_started], FALSE)
            ELSE page([reserved.t EXCEPT !.parser.possible_nodes_left = @ - 1,
                                         !.node_count = 1,
                                         !.parser.stack_capacity = BJDATA_NODE_INITIAL_DEPTH,
                                         !.parser.stack_owned = FALSE])
    IN  IF bjd_tree_error(t) # bjd_ok THEN TreeRet(t, FALSE)
        ELSE after(bjd_tree_reserve_bytes(
                    [advanced EXCEPT !.parser.possible_nodes_left = Len(advanced.data)], 1))

\* the tail of bjd_tree_parse once parsing is started or resumed
TreeParseContinue(t) ==
    LET after(continued) ==
            IF ~continued.ret
            THEN IF bjd_tree_error(continued.t) # bjd_ok THEN continued.t
                 ELSE bjd_tree_flag_error(continued.t,
                                          IF continued.t.read_fn = "NULL" THEN bjd_error_invalid
                                          ELSE bjd_error_io)
            ELSE [continued.t EXCEPT !.parser.state = bjd_tree_parse_state_parsed]
    IN  after(bjd_tree_continue_parsing(t))

\* bjd_tree_parse leaving an unfinished parse as bjd_tree_try_parse leaves it.
bjd_tree_parse_patient(t) ==
    LET parsed(continued) ==
            IF ~continued.ret THEN continued.t
            ELSE [continued.t EXCEPT !.parser.state = bjd_tree_parse_state_parsed]
        after(started) ==
            IF ~started.ret THEN started.t
            ELSE parsed(bjd_tree_continue_parsing(started.t))
    IN  IF bjd_tree_error(t) # bjd_ok THEN t
        ELSE IF t.parser.state # bjd_tree_parse_state_in_progress
        THEN after(bjd_tree_parse_start(t))
        ELSE parsed(bjd_tree_continue_parsing(t))

bjd_tree_parse(t) ==
    LET after(started) ==
            IF ~started.ret
            THEN bjd_tree_flag_error(started.t,
                                     IF started.t.read_fn = "NULL" THEN bjd_error_invalid
                                     ELSE bjd_error_io)
            ELSE TreeParseContinue(started.t)
    IN  IF bjd_tree_error(t) # bjd_ok THEN t
        ELSE IF t.parser.state # bjd_tree_parse_state_in_progress
        THEN after(bjd_tree_parse_start(t))
        ELSE TreeParseContinue(t)

bjd_tree_try_parse(t) ==
    LET parsed(continued) ==
            IF ~continued.ret THEN continued
            ELSE TreeRet([continued.t EXCEPT !.parser.state = bjd_tree_parse_state_parsed],
                         TRUE)
        after(started) ==
            IF ~started.ret THEN started
            ELSE parsed(bjd_tree_continue_parsing(started.t))
    IN  IF bjd_tree_error(t) # bjd_ok THEN TreeRet(t, FALSE)
        ELSE IF t.parser.state # bjd_tree_parse_state_in_progress
        THEN after(bjd_tree_parse_start(t))
        ELSE parsed(bjd_tree_continue_parsing(t))

\* a teardown callback that releases what the tree's context owns
bjd_file_tree_teardown(t) == [t EXCEPT !.teardown_calls = @ + 1]

bjd_tree_destroy(t) ==
    \* tree->buffer is freed when it is not NULL and is not set to NULL: it
    \* is not NULL once allocated ("buffer" tells that it is allocated and
    \* "frees" how many times it has been freed)
    LET cleaned == [bjd_tree_cleanup(t) EXCEPT
                        !.frees = IF t.buffer \/ t.frees > 0 THEN @ + 1 ELSE @,
                        !.buffer = FALSE,
                        !.destroy_calls = @ + 1]
        torn == IF cleaned.teardown # "NULL" THEN bjd_file_tree_teardown(cleaned)
                ELSE cleaned
    IN  [torn EXCEPT !.teardown = "NULL", !.life = "destroyed",
                     !.destroy_return = torn.error]


(***************************************************************************)
(* Nodes (bjd_node_t).  A node handle is the tree it belongs to and a      *)
(* pointer to its data; the pointer is the position of the node in the     *)
(* order the parser filled the nodes in, 0 for NULL, and two positions     *)
(* outside the parsed nodes for the tree's own nil and missing nodes.      *)
(* "answer" keeps what the last query returned: the node in "node", a      *)
(* 64-bit value in "value", a size or comparison result in "count", a      *)
(* boolean in "flag" and a type in "type".                                 *)
(***************************************************************************)
bjd_tree_nil_node == -1

bjd_tree_missing_node == -2

NodeData(t, data) ==
    CASE data = bjd_tree_nil_node -> TreeNode(bjd_type_nil, 0, 0)
      [] data = bjd_tree_missing_node -> TreeNode(bjd_type_missing, 0, 0)
      [] OTHER -> t.nodes[data]

\* The parser fills a compound's children in before its next sibling, each
\* child followed by its own children: the position "n" subtrees after "i".
RECURSIVE TreeSkip(_, _, _)
TreeSkip(nodes, i, n) ==
    IF n = 0 THEN i
    ELSE TreeSkip(nodes, i + 1,
                  n - 1 + (CASE nodes[i].type = bjd_type_map -> nodes[i].len * 2
                             [] nodes[i].type = bjd_type_array -> nodes[i].len
                             [] OTHER -> 0))

bjd_node_child(t, data, child) == TreeSkip(t.nodes, data + 1, child)

bjd_node_data_unchecked(t, data) ==
    SubSeq(t.data, t.nodes[data].value + 1, t.nodes[data].value + t.nodes[data].len)

NodeRet(t, data) == [t |-> t, node |-> data]

NodeVal(t, field, value) == [t |-> t, field |-> field, value |-> value]

\* bjd_tree_root returning the root of a tree in an error state.
bjd_tree_root_unguarded(t) ==
    IF t.parser.state # bjd_tree_parse_state_parsed
    THEN NodeRet(bjd_tree_flag_error(t, bjd_error_bug), bjd_tree_nil_node)
    ELSE NodeRet(t, 1)

bjd_tree_root(t) ==
    IF bjd_tree_error(t) # bjd_ok THEN NodeRet(t, bjd_tree_nil_node)
    ELSE IF t.parser.state # bjd_tree_parse_state_parsed
    THEN NodeRet(bjd_tree_flag_error(t, bjd_error_bug), bjd_tree_nil_node)
    ELSE NodeRet(t, 1)

\* the key comparison of bjd_node_map_int_impl without the uint alternative
NodeKeyIsIntOnly(t, key, num) ==
    t.nodes[key].type = bjd_type_int /\ t.nodes[key].value = num

NodeKeyIsInt(t, key, num) ==
    \/ t.nodes[key].type = bjd_type_int /\ t.nodes[key].value = num
    \/ t.nodes[key].type = bjd_type_uint /\ num[1] < 128 /\ t.nodes[key].value = num

NodeKeyIsUint(t, key, num) ==
    \/ t.nodes[key].type = bjd_type_uint /\ t.nodes[key].value = num
    \/ /\ t.nodes[key].type = bjd_type_int
       /\ t.nodes[key].value[1] < 128
       /\ t.nodes[key].value = num

NodeKeyIsStr(t, key, str) ==
    /\ t.nodes[key].type = bjd_type_str
    /\ t.nodes[key].len = Len(str)
    /\ bjd_node_data_unchecked(t, key) = str

\* The loop of the three lookups from entry "i" on, "found" being the value
\* of the match met so far (0 for none); "by" names the lookup.
RECURSIVE NodeMapScan(_, _, _, _, _, _)
NodeMapScan(t, data, by, wanted, i, found) ==
    LET key == bjd_node_child(t, data, i * 2)
        matches == CASE by = "int" -> NodeKeyIsInt(t, key, wanted)
                     [] by = "uint" -> NodeKeyIsUint(t, key, wanted)
                     [] by = "str" -> NodeKeyIsStr(t, key, wanted)
    IN  IF i >= NodeData(t, data).len THEN NodeRet(t, found)
        ELSE IF ~matches THEN NodeMapScan(t, data, by, wanted, i + 1, found)
        ELSE IF found # 0
        THEN NodeRet(bjd_tree_flag_error(t, bjd_error_data), 0)
        ELSE NodeMapScan(t, data, by, wanted, i + 1, bjd_node_child(t, data, i * 2 + 1))

NodeMapImpl(t, data, by, wanted) ==
    IF bjd_tree_error(t) # bjd_ok THEN NodeRet(t, 0)
    ELSE IF NodeData(t, data).type # bjd_type_map
    THEN NodeRet(bjd_tree_flag_error(t, bjd_error_type), 0)
    ELSE NodeMapScan(t, data, by, wanted, 0, 0)

bjd_node_map_int_impl(t, data, num) == NodeMapImpl(t, data, "int", num)

bjd_node_map_uint_impl(t, data, num) == NodeMapImpl(t, data, "uint", num)

bjd_node_map_str_impl(t, data, str) == NodeMapImpl(t, data, "str", str)

\* bjd_node_wrap_lookup answering a key that is not there as the optional
\* lookup does.
bjd_node_wrap_lookup_lenient(found) ==
    IF found.node = 0
    THEN IF found.t.error = bjd_ok THEN NodeRet(found.t, bjd_tree_missing_node)
         ELSE NodeRet(found.t, bjd_tree_nil_node)
    ELSE found

bjd_node_wrap_lookup(found) ==
    IF found.node = 0
    THEN IF found.t.error = bjd_ok
         THEN NodeRet(bjd_tree_flag_error(found.t, bjd_error_data), bjd_tree_nil_node)
         ELSE NodeRet(found.t, bjd_tree_nil_node)
    ELSE found

bjd_node_wrap_lookup_optional(found) ==
    IF found.node = 0
    THEN IF found.t.error = bjd_ok THEN NodeRet(found.t, bjd_tree_missing_node)
         ELSE NodeRet(found.t, bjd_tree_nil_node)
    ELSE found

bjd_node_map_int(t, data, num) == bjd_node_wrap_lookup(bjd_node_map_int_impl(t, data, num))

bjd_node_map_uint(t, data, num) == bjd_node_wrap_lookup(bjd_node_map_uint_impl(t, data, num))

bjd_node_map_str(t, data, str) == bjd_node_wrap_lookup(bjd_node_map_str_impl(t, data, str))

bjd_node_map_str_optional(t, data, str) ==
    bjd_node_wrap_lookup_optional(bjd_node_map_str_impl(t, data, str))

bjd_node_array_at(t, data, index) ==
    IF bjd_tree_error(t) # bjd_ok THEN NodeRet(t, bjd_tree_nil_node)
    ELSE IF NodeData(t, data).type # bjd_type_array
    THEN NodeRet(bjd_tree_flag_error(t, bjd_error_type), bjd_tree_nil_node)
    ELSE IF index >= NodeData(t, data).len
    THEN NodeRet(bjd_tree_flag_error(t, bjd_error_data), bjd_tree_nil_node)
    ELSE NodeRet(t, bjd_node_child(t, data, index))

bjd_node_type(t, data) ==
    IF bjd_tree_error(t) # bjd_ok THEN NodeVal(t, "type", bjd_type_nil)
    ELSE NodeVal(t, "type", NodeData(t, data).type)

bjd_node_is_nil(t, data) ==
    IF bjd_tree_error(t) # bjd_ok THEN NodeVal(t, "flag", TRUE)
    ELSE NodeVal(t, "flag", NodeData(t, data).type = bjd_type_nil)

bjd_node_bool(t, data) ==
    IF bjd_tree_error(t) # bjd_ok THEN NodeVal(t, "flag", FALSE)
    ELSE IF NodeData(t, data).type = bjd_type_bool
    THEN NodeVal(t, "flag", NodeData(t, data).value)
    ELSE NodeVal(bjd_tree_flag_error(t, bjd_error_type), "flag", FALSE)

bjd_node_u64(t, data) ==
    IF bjd_tree_error(t) # bjd_ok THEN NodeVal(t, "value", u64(0))
    ELSE IF NodeData(t, data).type = bjd_type_uint
    THEN NodeVal(t, "value", NodeData(t, data).value)
    ELSE IF NodeData(t, data).type = bjd_type_int /\ NodeData(t, data).value[1] < 128
    THEN NodeVal(t, "value", NodeData(t, data).value)
    ELSE NodeVal(bjd_tree_flag_error(t, bjd_error_type), "value", u64(0))

bjd_node_strlen(t, data) ==
    IF bjd_tree_error(t) # bjd_ok THEN NodeVal(t, "count", 0)
    ELSE IF NodeData(t, data).type = bjd_type_str
    THEN NodeVal(t, "count", NodeData(t, data).len)
    ELSE NodeVal(bjd_tree_flag_error(t, bjd_error_type), "count", 0)

(***************************************************************************)
(* The caller's side of the structural contract, recorded from the calls.  *)
(* A frame is a compound the caller opened: its kind as the API names it   *)
(* ("array", "map", "str", "bin", "ext"), the count it declared, and how   *)
(* many elements or payload bytes the caller has put into it.  "conform"   *)
(* stays TRUE while every call so far was allowed by the contract;         *)
(* "breach" names how the last call broke it: "kind" (closed under another *)
(* kind than the innermost open compound), "early" (closed before the      *)
(* declared count was used up), "extra" (an element beyond an array's or   *)
(* map's count), "excess" (more payload bytes than declared), "misplaced"  *)
(* (an element inside a str, bin or ext; bytes or a close with no such     *)
(* compound open), or "none".                                              *)
(* "reflagged" tells that flag_error was called with another kind than the *)
(* one latched.  "written" and "read" are the tags handed to bjd_write_tag and the tags  *)
(* bjd_read_tag returned; "script" is the sequence of calls that wrote.    *)
(***************************************************************************)
MonitorInit(who) ==
    [who |-> who, stack |-> << >>, conform |-> TRUE, breach |-> "none",
     ops |-> 0, after |-> 0, reflagged |-> FALSE, script |-> << >>, pos |-> 0,
     written |-> << >>, read |-> << >>,
     last |-> "none", returned |-> TagPlain(BJDATA_TAG_ZERO), calls |-> << >>]

\* the record of the calls so far, before the next call is judged
Before == [monitor EXCEPT !.breach = "none"]

FrameRoom(frame) == IF frame.kind = "map" THEN 2 * frame.declared ELSE frame.declared

MonBreak(m, breach) == [m EXCEPT !.conform = FALSE, !.breach = breach]

MonElement(m) ==
    LET n == Len(m.stack)
    IN  IF ~m.conform \/ n = 0 THEN m
        ELSE IF m.stack[n].kind \notin {"array", "map"} THEN MonBreak(m, "misplaced")
        ELSE IF m.stack[n].seen < FrameRoom(m.stack[n])
        THEN [m EXCEPT !.stack[n].seen = @ + 1]
        ELSE MonBreak(m, "extra")

MonOpen(m, kind, count) ==
    LET e == MonElement(m)
    IN  IF ~e.conform THEN e
        ELSE [e EXCEPT !.stack = Append(@, [kind |-> kind, declared |-> count, seen |-> 0])]

MonBytes(m, count) ==
    LET n == Len(m.stack)
    IN  IF ~m.conform THEN m
        ELSE IF n = 0 \/ m.stack[n].kind \notin {"str", "bin", "ext"}
        THEN MonBreak(m, "misplaced")
        ELSE IF m.stack[n].seen + count <= m.stack[n].declared
        THEN [m EXCEPT !.stack[n].seen = @ + count]
        ELSE MonBreak(m, "excess")

MonClose(m, kind) ==
    LET n == Len(m.stack)
    IN  IF ~m.conform THEN m
        ELSE IF n = 0 THEN MonBreak(m, "misplaced")
        ELSE IF m.stack[n].kind # kind THEN MonBreak(m, "kind")
        ELSE IF m.stack[n].seen < FrameRoom(m.stack[n]) THEN MonBreak(m, "early")
        ELSE [m EXCEPT !.stack = SubSeq(@, 1, n - 1)]

\* a failure that is not the caller breaking the structural contract: an
\* externally flagged error, bad or missing input, a refused format version
MonAbandon(m) == [m EXCEPT !.conform = FALSE]

\* an explicit flag_error(error) on an instance whose error is "latched"
MonFlag(m, latched, error) ==
    [MonAbandon(m) EXCEPT !.reflagged = @ \/ (latched # bjd_ok /\ latched # error)]

\* the API's name for the compound a tag opens
KindOf(type) ==
    CASE type = bjd_type_array -> "array"
      [] type = bjd_type_map -> "map"
      [] type = bjd_type_str -> "str"
      [] type \in {bjd_type_huge, bjd_type_bin} -> "bin"
      [] type = bjd_type_ext -> "ext"
      [] OTHER -> "none"

MonTag(m, tag) ==
    IF KindOf(tag.type) = "none" THEN MonElement(m)
    ELSE MonOpen(m, KindOf(tag.type), tag.v)

(***************************************************************************)
(* Bounds of the exploration.                                              *)
(***************************************************************************)
MaxOps == 4
MaxDepth == 2
MaxAfter == 1
MaxTags == 2

\* the counts a caller declares for an array or a map, and for a str, bin or ext
Counts == {0, 1, 2}
Lengths == {0, 2}
Chunks == {1, 2}

(***************************************************************************)
(* Entering and leaving a call.                                            *)
(***************************************************************************)
Begin(x, env) == [x EXCEPT !.env = env]

End(x) == [x EXCEPT !.env = NoEnv, !.jumped = FALSE]

\* the error callback may leave non-locally only if it can still be called
Jumps(x) == IF x.error_fn /\ x.error = bjd_ok THEN BOOLEAN ELSE {FALSE}

Count(m, error) ==
    [m EXCEPT !.ops = @ + 1,
              !.after = IF error = bjd_ok THEN @ ELSE @ + 1,
              !.breach = IF error = bjd_ok THEN @ ELSE "none"]

(***************************************************************************)
(* Writer actions: one public function applied to the writer.              *)
(***************************************************************************)
WriterEnvs(w) ==
    [jump : Jumps(w),
     alloc_ok : IF Len(w.track.elements) = w.track.capacity \/ w.flush = "growable"
                THEN BOOLEAN ELSE {TRUE},
     teardown_ok : {TRUE}]

WriterDestroyEnvs(w) ==
    [jump : Jumps(w),
     alloc_ok : IF w.teardown = "growable" THEN BOOLEAN ELSE {TRUE},
     teardown_ok : IF w.teardown # "NULL" THEN BOOLEAN ELSE {TRUE}]

WriterCall(f(_), m) ==
    /\ monitor.who = "writer"
    /\ writer.life = "live"
    /\ monitor.ops < MaxOps
    /\ writer.error = bjd_ok \/ monitor.after < MaxAfter
    /\ \E env \in WriterEnvs(writer) : writer' = End(f(Begin(writer, env)))
    /\ monitor' = Count(m, writer.error)
    /\ UNCHANGED <<reader, tree, build>>

CanOpen == Len(writer.track.elements) < MaxDepth

WriteNil ==
    WriterCall(LAMBDA w : bjd_write_nil(w), MonElement(Before))

StartArray ==
    \E n \in Counts :
        /\ CanOpen
        /\ WriterCall(LAMBDA w : bjd_start_array(w, n), MonOpen(Before, "array", n))

StartMap ==
    \E n \in Counts :
        /\ CanOpen
        /\ WriterCall(LAMBDA w : bjd_start_map(w, n), MonOpen(Before, "map", n))

StartStr ==
    \E n \in Lengths :
        /\ CanOpen
        /\ WriterCall(LAMBDA w : bjd_start_str(w, n), MonOpen(Before, "str", n))

StartBin ==
    \E n \in Lengths :
        /\ CanOpen
        /\ WriterCall(LAMBDA w : bjd_start_bin(w, n), MonOpen(Before, "bin", n))

StartExt ==
    \E n \in Lengths :
        /\ build.BJDATA_EXTENSIONS
        /\ CanOpen
        /\ WriterCall(LAMBDA w : bjd_start_ext(w, 1, n),
                      IF writer.version <= bjd_version_v4 THEN MonAbandon(Before)
                      ELSE MonOpen(Before, "ext", n))

WriteBytes ==
    \E n \in Chunks :
        WriterCall(LAMBDA w : bjd_write_bytes(w, Payload(n)), MonBytes(Before, n))

FinishArray ==
    WriterCall(LAMBDA w : bjd_finish_array(w), MonClose(Before, "array"))

FinishMap ==
    WriterCall(LAMBDA w : bjd_finish_map(w), MonClose(Before, "map"))

FinishStr ==
    WriterCall(LAMBDA w : bjd_finish_str(w), MonClose(Before, "str"))

FinishBin ==
    WriterCall(LAMBDA w : bjd_finish_bin(w), MonClose(Before, "bin"))

FinishExt ==
    /\ build.BJDATA_EXTENSIONS
    /\ WriterCall(LAMBDA w : bjd_finish_ext(w), MonClose(Before, "ext"))

WriterFlagError ==
    \E error \in {bjd_error_io} :
        WriterCall(LAMBDA w : bjd_writer_flag_error(w, error),
                   MonFlag(Before, writer.error, error))

WriterDestroy ==
    /\ monitor.who = "writer"
    /\ writer.life \in {"live", "jumped"}
    /\ \E env \in WriterDestroyEnvs(writer) :
            writer' = End(bjd_writer_destroy(Begin(writer, env)))
    /\ monitor' = Before
    /\ UNCHANGED <<reader, tree, build>>

(***************************************************************************)
(* The writer as constructed and configured by its owner: a buffer of the  *)
(* given size, optionally a flush callback over a sink with the given      *)
(* room, an error callback, a teardown callback, a format version.         *)
(***************************************************************************)
WriterSetup(size, flush, room, error_fn, teardown, version) ==
    LET w0 == [bjd_writer_init(size) EXCEPT !.sink_room = room]
        w1 == bjd_writer_set_error_handler(w0, error_fn)
        w2 == IF flush # "NULL" THEN bjd_writer_set_flush(w1, flush) ELSE w1
        w3 == bjd_writer_set_teardown(w2, teardown)
    IN  End(bjd_writer_set_version(w3, version))

\* an instance the behaviour does not use
WriterUnused == [bjd_writer_init(0) EXCEPT !.life = "unused"]

ReaderUnused == [ReaderZero EXCEPT !.life = "unused"]

TreeUnused == [bjd_tree_init_clear EXCEPT !.life = "unused"]

(***************************************************************************)
(* Reader actions: one public function applied to the reader.  A function  *)
(* that returns a value is given as the pair of the reader afterwards (.r) *)
(* and the value.                                                          *)
(***************************************************************************)
ReaderEnvs(r, allocs) == [jump : Jumps(r), alloc_ok : allocs, teardown_ok : {TRUE}]

ReaderDestroyEnvs(r) ==
    [jump : Jumps(r),
     alloc_ok : {TRUE},
     teardown_ok : IF r.teardown # "NULL" THEN BOOLEAN ELSE {TRUE}]

\* the tracker allocates when it opens a compound beyond its capacity
ReaderTrackAllocs(r) ==
    IF Len(r.track.elements) = r.track.capacity THEN BOOLEAN ELSE {TRUE}

\* a call that failed for a reason other than the caller's use of the API
MonFailed(m, r) == IF m.conform /\ r.error # bjd_ok THEN MonAbandon(m) ELSE m

ReaderCall(allocs, f(_), m(_)) ==
    /\ monitor.who = "reader"
    /\ reader.life = "live"
    /\ monitor.ops < MaxOps
    /\ reader.error = bjd_ok \/ monitor.after < MaxAfter
    /\ \E env \in ReaderEnvs(reader, allocs) :
            LET returned(result) ==
                    /\ reader' = End(result.r)
                    /\ monitor' = Count(MonFailed(m(result), result.r), reader.error)
            IN  returned(f(Begin(reader, env)))
    /\ UNCHANGED <<writer, tree, build>>

\* what reading a tag means to the caller's record: an element, and an open
\* compound when the tag read is one
MonRead(m, result) ==
    IF ~MonElement(m).conform \/ result.r.error # bjd_ok THEN MonElement(m)
    ELSE MonTag(m, result.tag)

ReadTag ==
    /\ Len(reader.track.elements) < MaxDepth
    /\ ReaderCall(ReaderTrackAllocs(reader),
                  LAMBDA r : bjd_read_tag(r),
                  LAMBDA result : MonRead(Before, result))

ReadBytes ==
    \E n \in Chunks :
        ReaderCall({TRUE}, LAMBDA r : bjd_read_bytes(r, n), LAMBDA result : MonBytes(Before, n))

ReadBytesAlloc ==
    \E n \in Chunks :
        ReaderCall(BOOLEAN, LAMBDA r : bjd_read_bytes_alloc_impl(r, n, FALSE),
                   LAMBDA result : MonBytes(Before, n))

SkipBytes ==
    \E n \in Chunks :
        ReaderCall({TRUE}, LAMBDA r : [r |-> bjd_skip_bytes(r, n)],
                   LAMBDA result : MonBytes(Before, n))

DoneArray ==
    ReaderCall({TRUE}, LAMBDA r : [r |-> bjd_done_array(r)],
               LAMBDA result : MonClose(Before, "array"))

DoneMap ==
    ReaderCall({TRUE}, LAMBDA r : [r |-> bjd_done_map(r)],
               LAMBDA result : MonClose(Before, "map"))

DoneStr ==
    ReaderCall({TRUE}, LAMBDA r : [r |-> bjd_done_str(r)],
               LAMBDA result : MonClose(Before, "str"))

DoneBin ==
    ReaderCall({TRUE}, LAMBDA r : [r |-> bjd_done_bin(r)],
               LAMBDA result : MonClose(Before, "bin"))

DoneExt ==
    /\ build.BJDATA_EXTENSIONS
    /\ ReaderCall({TRUE}, LAMBDA r : [r |-> bjd_done_ext(r)],
                  LAMBDA result : MonClose(Before, "ext"))

WriterCancel ==
    WriterCall(LAMBDA w : bjd_writer_flag_error(w, bjd_error_data),
               MonFlag(Before, writer.error, bjd_error_data))

ReaderCancel ==
    ReaderCall({TRUE}, LAMBDA r : [r |-> bjd_reader_flag_error(r, bjd_error_data)],
               LAMBDA result : MonFlag(Before, reader.error, bjd_error_data))

ReaderFlagError ==
    \E error \in {bjd_error_io} :
        ReaderCall({TRUE}, LAMBDA r : [r |-> bjd_reader_flag_error(r, error)],
                   LAMBDA result : MonFlag(Before, reader.error, error))

ReaderDestroy ==
    /\ monitor.who = "reader"
    /\ reader.life \in {"live", "jumped"}
    /\ \E env \in ReaderDestroyEnvs(reader) :
            reader' = End(bjd_reader_destroy(Begin(reader, env)))
    /\ monitor' = Before
    /\ UNCHANGED <<writer, tree, build>>

\* The reader as its owner sets it up: over a whole message in memory, or
\* over a buffer of the minimum size filled from a stream "chunk" bytes at
\* a time and closed by the teardown.
ReaderSetup(mode, data, chunk, error_fn) ==
    IF mode = "data"
    THEN End(bjd_reader_set_error_handler(bjd_reader_init_data(data), error_fn))
    ELSE LET r0 == [bjd_reader_init(BJDATA_READER_MINIMUM_BUFFER_SIZE, << >>)
                        EXCEPT !.source = data, !.chunk = chunk]
             r1 == bjd_reader_set_fill(r0, "file")
             r2 == bjd_reader_set_teardown(r1, "close")
         IN  End(bjd_reader_set_error_handler(r2, error_fn))

(***************************************************************************)
(* Tree actions.                                                           *)
(***************************************************************************)
TreeEnvs(t) == [jump : Jumps(t), alloc_ok : BOOLEAN, teardown_ok : {TRUE}]

TreeCall(f(_), m) ==
    /\ monitor.who = "tree"
    /\ tree.life = "live"
    /\ monitor.ops < MaxOps
    /\ tree.error = bjd_ok \/ monitor.after < MaxAfter
    /\ \E env \in TreeEnvs(tree) :
            tree' = End(f(Begin([tree EXCEPT !.starved = FALSE], env)))
    /\ monitor' = Count(m, tree.error)
    /\ UNCHANGED <<writer, reader, build>>

TreeParse == TreeCall(LAMBDA t : bjd_tree_parse(t), Before)

\* the tree after a call, with the value the call returned to its caller
TreeReturned(result) ==
    [result.t EXCEPT !.parse_return = IF result.ret THEN "true" ELSE "false"]

TreeTryParse == TreeCall(LAMBDA t : TreeReturned(bjd_tree_try_parse(t)), Before)

TreeFlagError ==
    \E error \in {bjd_error_io} :
        TreeCall(LAMBDA t : bjd_tree_flag_error(t, error), MonFlag(Before, tree.error, error))

TreeDestroy ==
    /\ monitor.who = "tree"
    /\ tree.life = "live"
    /\ tree' = End(bjd_tree_destroy(Begin(tree, NoEnv)))
    /\ monitor' = Before
    /\ UNCHANGED <<writer, reader, build>>

\* more of the message reaches the stream a tree reads from
TreeArrive ==
    /\ monitor.who = "tree"
    /\ tree.life = "live"
    /\ tree.pending # << >>
    /\ \E n \in Chunks :
            tree' = [tree EXCEPT !.source = @ \o SubSeq(tree.pending, 1, Min(n, Len(tree.pending))),
                                 !.pending = SubSeq(@, Min(n, Len(@)) + 1, Len(@))]
    /\ UNCHANGED <<writer, reader, build, monitor>>

\* The tree as its owner sets it up: over a whole message with pages from
\* the allocator, over a whole message with a node pool, or over a stream
\* with limits on the size and the node count of a message.
TreeSetup(mode, data, n, limits, error_fn) ==
    LET t == CASE mode = "data" -> bjd_tree_init_data(data)
               [] mode = "limited" ->
                    bjd_tree_set_limits(bjd_tree_init_data(data), limits.size, limits.nodes)
               [] mode = "pool" -> bjd_tree_init_pool(data, n)
               [] mode = "stream" ->
                    [bjd_tree_init_stream("stream", limits.size, limits.nodes)
                        EXCEPT !.pending = data, !.chunk = n]
    IN  End(bjd_tree_set_error_handler(t, error_fn))

(***************************************************************************)
(* Spec: one instance (a tracked writer over a fixed buffer, a tracked     *)
(* reader, or a tree), set up in one of the ways below and then driven by  *)
(* every sequence of calls.                                                *)
(***************************************************************************)
ReaderInputs ==
    { <<146, 192, 192>>,        \* [nil, nil]
      <<129, 192, 192>>,        \* {nil: nil}
      <<162, 97, 98>>,          \* "ab"
      <<196, 2, 97, 98>>,       \* bin of 2 bytes
      <<213, 1, 97, 98>>,       \* ext of type 1 and 2 bytes
      <<146, 192>>,             \* an array cut short
      <<162, 97>>,              \* a str cut short
      <<193>> }                 \* the reserved byte

TreeInputs ==
    { <<146, 192, 192>>,
      <<129, 160, 145, 192>>,   \* {"": [nil]}
      <<196, 2, 97, 98>>,
      <<192, 195>>,             \* two messages
      <<145, 192, 195>>,        \* two messages, the second past the first chunk
      <<146, 192>>,
      <<222, 255, 255>>,        \* the header of a map of 65535 pairs and nothing else
      <<193>> }

TreeLimits == { [size |-> 2, nodes |-> 8], [size |-> 64, nodes |-> 2], [size |-> 64, nodes |-> 8] }

InitWriter ==
    /\ \E error_fn \in BOOLEAN, version \in {bjd_version_v4, bjd_version_v5} :
            writer = WriterSetup(BJDATA_WRITER_MINIMUM_BUFFER_SIZE, "NULL", 0, error_fn,
                                 "NULL", version)
    /\ reader = ReaderUnused
    /\ tree = TreeUnused
    /\ monitor = MonitorInit("writer")

InitReader ==
    /\ writer = WriterUnused
    /\ \E mode \in {"data", "file"}, data \in ReaderInputs, error_fn \in BOOLEAN :
            reader = ReaderSetup(mode, data, 2, error_fn)
    /\ tree = TreeUnused
    /\ monitor = MonitorInit("reader")

InitTree ==
    /\ writer = WriterUnused
    /\ reader = ReaderUnused
    /\ \E data \in TreeInputs, error_fn \in BOOLEAN :
            \/ tree = TreeSetup("data", data, 0, 0, error_fn)
            \/ \E limits \in TreeLimits : tree = TreeSetup("limited", data, 0, limits, error_fn)
            \/ \E n \in {1, 3} : tree = TreeSetup("pool", data, n, 0, error_fn)
            \/ \E limits \in TreeLimits : tree = TreeSetup("stream", data, 2, limits, error_fn)
    /\ monitor = MonitorInit("tree")

Init ==
    /\ build = [BJDATA_EXTENSIONS |-> TRUE]
    /\ (InitWriter \/ InitReader \/ InitTree)

Next ==
    \/ WriteNil
    \/ StartArray
    \/ StartMap
    \/ StartStr
    \/ StartBin
    \/ StartExt
    \/ WriteBytes
    \/ FinishArray
    \/ FinishMap
    \/ FinishStr
    \/ FinishBin
    \/ FinishExt
    \/ WriterFlagError
    \/ WriterDestroy
    \/ ReadTag
    \/ ReadBytes
    \/ ReadBytesAlloc
    \/ SkipBytes
    \/ DoneArray
    \/ DoneMap
    \/ DoneStr
    \/ DoneBin
    \/ DoneExt
    \/ ReaderFlagError
    \/ ReaderDestroy
    \/ TreeParse
    \/ TreeTryParse
    \/ TreeFlagError
    \/ TreeDestroy
    \/ TreeArrive

Spec == Init /\ [][Next]_vars

(***************************************************************************)
(* A writer that flushes to a sink: buffers of the minimum size and a      *)
(* little more, a sink that is large or fills up, strings shorter and      *)
(* longer than the free space of the buffer.                               *)
(***************************************************************************)
FlushBufferSizes == {BJDATA_WRITER_MINIMUM_BUFFER_SIZE, BJDATA_WRITER_MINIMUM_BUFFER_SIZE + 5}

SinkRooms == {36, 1000}

StrLengths == {5, 31, 40}

WriteStrOf(n) == WriterCall(LAMBDA w : bjd_write_str(w, Payload(n)), MonElement(Before))

WriteStr == \E n \in StrLengths : WriteStrOf(n)

FlushMessage ==
    WriterCall(LAMBDA w : bjd_writer_flush_message(w), Before)

InitFlush ==
    /\ build = [BJDATA_EXTENSIONS |-> TRUE]
    /\ \E size \in FlushBufferSizes, room \in SinkRooms, error_fn \in BOOLEAN,
          version \in {bjd_version_v4, bjd_version_v5} :
            writer = WriterSetup(size, "file", room, error_fn, "close", version)
    /\ reader = ReaderUnused
    /\ tree = TreeUnused
    /\ monitor = MonitorInit("writer")

NextFlush ==
    \/ WriteNil
    \/ WriteStr
    \/ StartArray
    \/ FinishArray
    \/ FlushMessage
    \/ WriterFlagError
    \/ WriterDestroy

SpecFlush == InitFlush /\ [][NextFlush]_vars

(***************************************************************************)
(* A round trip: a writer over a fixed buffer emits tags with              *)
(* bjd_write_tag, the payload bytes of the short str, bin and ext it opens *)
(* and the finish_* calls; a reader over the bytes emitted reads them back *)
(* with bjd_read_tag, skipping payloads and closing compounds as the       *)
(* writer did.  A compound too large to fill is the last thing written.    *)
(***************************************************************************)
TagSamples ==
    << bjd_tag_make_nil,
       bjd_tag_make_bool(TRUE),
       bjd_tag_make_bool(FALSE),
       bjd_tag_make_uint(u64(0)),
       bjd_tag_make_uint(u64(127)),
       bjd_tag_make_uint(u64(128)),
       bjd_tag_make_uint(u64(255)),
       bjd_tag_make_uint(u64(256)),
       bjd_tag_make_uint(u64(65535)),
       bjd_tag_make_uint(u64(65536)),
       bjd_tag_make_uint(UINT32_MAX_u64),
       bjd_tag_make_uint(<<0, 0, 0, 1, 0, 0, 0, 0>>),
       bjd_tag_make_uint(<<255, 255, 255, 255, 255, 255, 255, 255>>),
       bjd_tag_make_int(i64(5)),
       bjd_tag_make_int(i64(200)),
       bjd_tag_make_int(<<127, 255, 255, 255, 255, 255, 255, 255>>),
       bjd_tag_make_int(i64(0 - 1)),
       bjd_tag_make_int(i64(0 - 32)),
       bjd_tag_make_int(i64(0 - 33)),
       bjd_tag_make_int(INT8_MIN_i64),
       bjd_tag_make_int(i64(0 - 129)),
       bjd_tag_make_int(INT16_MIN_i64),
       bjd_tag_make_int(i64(0 - 32769)),
       bjd_tag_make_int(INT32_MIN_i64),
       bjd_tag_make_int(<<255, 255, 255, 255, 127, 255, 255, 255>>),
       bjd_tag_make_int(<<128, 0, 0, 0, 0, 0, 0, 0>>),
       bjd_tag_make_float(<<63, 128, 0, 0>>),
       bjd_tag_make_float(<<127, 192, 0, 0>>),
       bjd_tag_make_double(<<63, 240, 0, 0, 0, 0, 0, 0>>),
       bjd_tag_make_double(<<255, 248, 0, 0, 0, 0, 0, 1>>),
       bjd_tag_make_str(0),
       bjd_tag_make_str(2),
       bjd_tag_make_str(31),
       bjd_tag_make_str(32),
       bjd_tag_make_str(255),
       bjd_tag_make_str(256),
       bjd_tag_make_str(65535),
       bjd_tag_make_str(65536),
       bjd_tag_make_huge(0),
       bjd_tag_make_huge(2),
       bjd_tag_make_huge(256),
       bjd_tag_make_huge(65536),
       bjd_tag_make_array(0),
       bjd_tag_make_array(1),
       bjd_tag_make_array(2),
       bjd_tag_make_array(15),
       bjd_tag_make_array(16),
       bjd_tag_make_array(65535),
       bjd_tag_make_array(65536),
       bjd_tag_make_map(0),
       bjd_tag_make_map(1),
       bjd_tag_make_map(15),
       bjd_tag_make_map(16),
       bjd_tag_make_map(65536),
       bjd_tag_make_ext(1, 0),
       bjd_tag_make_ext(1, 1),
       bjd_tag_make_ext(0 - 2, 2),
       bjd_tag_make_ext(127, 4),
       bjd_tag_make_ext(0 - 128, 8),
       bjd_tag_make_ext(1, 16),
       bjd_tag_make_ext(1, 17),
       bjd_tag_make_ext(1, 256),
       bjd_tag_make_ext(1, 65536) >>

\* every compound open is short enough to be filled
OpenAreShort == \A i \in DOMAIN monitor.stack : monitor.stack[i].declared \in Counts

Scripted(m, op, kind, n) ==
    [m EXCEPT !.script = Append(@, [op |-> op, kind |-> kind, n |-> n])]

RtWriteTag ==
    \E i \in DOMAIN TagSamples :
        /\ writer.error = bjd_ok
        /\ Len(monitor.written) < MaxTags
        /\ CanOpen
        /\ OpenAreShort
        /\ WriterCall(LAMBDA w : bjd_write_tag(w, TagSamples[i]),
                      [Scripted(MonTag(Before, TagSamples[i]), "tag", "none", 0)
                            EXCEPT !.written = Append(@, TagSamples[i])])

RtWriteBytes ==
    /\ writer.error = bjd_ok
    /\ monitor.stack # << >>
    /\ OpenAreShort
    /\ monitor.stack[Len(monitor.stack)].kind \in {"str", "bin", "ext"}
    /\ monitor.stack[Len(monitor.stack)].seen = 0
    /\ monitor.stack[Len(monitor.stack)].declared > 0
    /\ LET n == monitor.stack[Len(monitor.stack)].declared
       IN  WriterCall(LAMBDA w : bjd_write_bytes(w, Payload(n)),
                      Scripted(MonBytes(Before, n), "bytes", "none", n))

RtFinishKind(w, kind) ==
    CASE kind = "array" -> bjd_finish_array(w)
      [] kind = "map" -> bjd_finish_map(w)
      [] kind = "str" -> bjd_finish_str(w)
      [] kind = "bin" -> bjd_finish_bin(w)
      [] kind = "ext" -> bjd_finish_ext(w)

RtFinish ==
    /\ writer.error = bjd_ok
    /\ monitor.stack # << >>
    /\ OpenAreShort
    /\ monitor.stack[Len(monitor.stack)].seen = FrameRoom(monitor.stack[Len(monitor.stack)])
    /\ LET kind == monitor.stack[Len(monitor.stack)].kind
       IN  WriterCall(LAMBDA w : RtFinishKind(w, kind),
                      Scripted(MonClose(Before, kind), "done", kind, 0))

\* the bytes the writer has put into its buffer become the reader's data
RtHandOver ==
    /\ monitor.who = "writer"
    /\ writer.life = "live"
    /\ writer.error = bjd_ok
    /\ monitor.written # << >>
    /\ reader' = ReaderSetup("data", writer.buffer, 0, FALSE)
    /\ monitor' = [monitor EXCEPT !.who = "reader", !.stack = << >>, !.ops = 0,
                                  !.breach = "none", !.pos = 0]
    /\ UNCHANGED <<writer, tree, build>>

RtNext == monitor.script[monitor.pos + 1]

RtStep(m) == [m EXCEPT !.pos = @ + 1]

RtReadTag ==
    /\ monitor.pos < Len(monitor.script)
    /\ RtNext.op = "tag"
    /\ reader.error = bjd_ok
    /\ ReaderCall(ReaderTrackAllocs(reader),
                  LAMBDA r : bjd_read_tag(r),
                  LAMBDA result : [RtStep(MonRead(Before, result))
                                        EXCEPT !.read = Append(@, result.tag)])

RtSkipBytes ==
    /\ monitor.pos < Len(monitor.script)
    /\ RtNext.op = "bytes"
    /\ reader.error = bjd_ok
    /\ ReaderCall({TRUE}, LAMBDA r : [r |-> bjd_skip_bytes(r, RtNext.n)],
                  LAMBDA result : RtStep(MonBytes(Before, RtNext.n)))

RtDoneKind(r, kind) ==
    CASE kind = "array" -> bjd_done_array(r)
      [] kind = "map" -> bjd_done_map(r)
      [] kind = "str" -> bjd_done_str(r)
      [] kind = "bin" -> bjd_done_bin(r)
      [] kind = "ext" -> bjd_done_ext(r)

RtDone ==
    /\ monitor.pos < Len(monitor.script)
    /\ RtNext.op = "done"
    /\ reader.error = bjd_ok
    /\ ReaderCall({TRUE}, LAMBDA r : [r |-> RtDoneKind(r, RtNext.kind)],
                  LAMBDA result : RtStep(MonClose(Before, RtNext.kind)))

InitRoundTrip ==
    /\ build = [BJDATA_EXTENSIONS |-> TRUE]
    /\ writer = WriterSetup(BJDATA_WRITER_MINIMUM_BUFFER_SIZE, "NULL", 0, FALSE, "NULL",
                            bjd_version_v5)
    /\ reader = ReaderUnused
    /\ tree = TreeUnused
    /\ monitor = MonitorInit("writer")

NextRoundTrip ==
    \/ RtWriteTag
    \/ RtWriteBytes
    \/ RtFinish
    \/ RtHandOver
    \/ RtReadTag
    \/ RtSkipBytes
    \/ RtDone

SpecRoundTrip == InitRoundTrip /\ [][NextRoundTrip]_vars

(***************************************************************************)
(* A tree over a non-blocking stream: one message reaches the stream a     *)
(* few bytes at a time, the owner calls bjd_tree_try_parse whenever it     *)
(* likes, and every allocation succeeds.  The size limit is roomy; the     *)
(* node limit is roomy, or exactly the node count of the message.          *)
(***************************************************************************)
StreamMessages ==
    { [data |-> <<130, 161, 97, 1, 161, 98, 195>>, nodes |-> 5],   \* {"a": 1, "b": true}
      [data |-> <<146, 192, 192>>, nodes |-> 3],                    \* [nil, nil]
      [data |-> <<196, 2, 97, 98>>, nodes |-> 1] }                  \* bin of 2 bytes

StreamLimits(message) ==
    { [size |-> 64, nodes |-> message.nodes], [size |-> 64, nodes |-> 8] }

StreamTryParse ==
    /\ monitor.who = "tree"
    /\ tree.life = "live"
    /\ monitor.ops < MaxOps
    /\ \E jump \in Jumps(tree) :
            tree' = End(TreeReturned(bjd_tree_try_parse(
                        Begin(tree, [jump |-> jump, alloc_ok |-> TRUE, teardown_ok |-> TRUE]))))
    /\ monitor' = Count(Before, tree.error)
    /\ UNCHANGED <<writer, reader, build>>

InitStream ==
    /\ build = [BJDATA_EXTENSIONS |-> TRUE]
    /\ writer = WriterUnused
    /\ reader = ReaderUnused
    /\ \E message \in StreamMessages, chunk \in {2, 8}, error_fn \in BOOLEAN :
            \E limits \in StreamLimits(message) :
                tree = TreeSetup("stream", message.data, chunk, limits, error_fn)
    /\ monitor = MonitorInit("tree")

NextStream ==
    \/ TreeArrive
    \/ StreamTryParse
    \/ TreeDestroy

SpecStream == InitStream /\ [][NextStream]_vars

(***************************************************************************)
(* A growable writer: bjd_writer_init_growable, writes that outgrow the    *)
(* buffer, and destroy, which hands the buffer over.                       *)
(***************************************************************************)
GrowLengths == {2100, 4200}

WriteLongStr ==
    \E n \in GrowLengths :
        WriterCall(LAMBDA w : bjd_write_str(w, Payload(n)), MonElement(Before))

InitGrow ==
    /\ build = [BJDATA_EXTENSIONS |-> TRUE]
    /\ \E alloc_ok \in BOOLEAN, error_fn \in BOOLEAN :
            writer = End(bjd_writer_set_error_handler(bjd_writer_init_growable(alloc_ok),
                                                      error_fn))
    /\ reader = ReaderUnused
    /\ tree = TreeUnused
    /\ monitor = MonitorInit("writer")

NextGrow ==
    \/ WriteNil
    \/ WriteLongStr
    \/ FlushMessage
    \/ WriterFlagError
    \/ WriterDestroy

SpecGrow == InitGrow /\ [][NextGrow]_vars

(***************************************************************************)
(* A reader whose caller looks at tags before taking them: every call      *)
(* leaves in the caller's record the tag it returned (returned), its name  *)
(* (last) and, for a run of peek_tag calls, the tag each returned and the  *)
(* reader the run started from (calls).                                    *)
(***************************************************************************)
TagCall(allocs, f(_), name) ==
    /\ monitor.who = "reader"
    /\ reader.life = "live"
    /\ monitor.ops < MaxOps
    /\ reader.error = bjd_ok \/ monitor.after < MaxAfter
    /\ \E env \in ReaderEnvs(reader, allocs) :
            LET returned(result) ==
                    /\ reader' = End(result.r)
                    /\ monitor' = Count([monitor EXCEPT
                                            !.last = name,
                                            !.returned = TagPlain(result.tag),
                                            !.calls = IF name = "peek"
                                                      THEN Append(@, [tag |-> TagPlain(result.tag),
                                                                      from |-> reader])
                                                      ELSE << >>],
                                        reader.error)
            IN  returned(f(Begin(reader, env)))
    /\ UNCHANGED <<writer, tree, build>>

TagPeek == TagCall({TRUE}, LAMBDA r : bjd_peek_tag(r), "peek")

TagRead == TagCall(ReaderTrackAllocs(reader), LAMBDA r : bjd_read_tag(r), "read")

TagReadBytes ==
    \E n \in Chunks :
        TagCall({TRUE}, LAMBDA r : Tagged(bjd_read_bytes(r, n).r, BJDATA_TAG_ZERO), "bytes")

TagDone ==
    \E type \in {bjd_type_array, bjd_type_map, bjd_type_str} :
        TagCall({TRUE}, LAMBDA r : Tagged(bjd_done_type(r, type), BJDATA_TAG_ZERO), "done")

TagFlagError ==
    TagCall({TRUE}, LAMBDA r : Tagged(bjd_reader_flag_error(r, bjd_error_io), BJDATA_TAG_ZERO),
            "flag")

NextTags ==
    \/ TagPeek
    \/ TagRead
    \/ TagReadBytes
    \/ TagDone
    \/ TagFlagError
    \/ ReaderDestroy

InitTags ==
    /\ build = [BJDATA_EXTENSIONS |-> TRUE]
    /\ InitReader

SpecTags == InitTags /\ [][NextTags]_vars

(***************************************************************************)
(* A reader asked for bytes in place: bjd_reader_ensure makes n bytes      *)
(* available in the buffer, bjd_read_bytes_inplace_notrack takes them.     *)
(***************************************************************************)
EnsureCounts == {1, 2, 5, 33}

EnsureInputs == {Payload(3), Payload(6)}

EnsureOf(n) ==
    /\ reader.error = bjd_ok
    /\ TagCall({TRUE}, LAMBDA r : Tagged(bjd_reader_ensure(r, n).r, BJDATA_TAG_ZERO), "ensure")

Ensure == \E n \in EnsureCounts : EnsureOf(n)

ReadInplace ==
    \E n \in EnsureCounts :
        TagCall({TRUE}, LAMBDA r : Tagged(bjd_read_bytes_inplace_notrack(r, n).r, BJDATA_TAG_ZERO),
                "inplace")

InitEnsure ==
    /\ build = [BJDATA_EXTENSIONS |-> TRUE]
    /\ writer = WriterUnused
    /\ tree = TreeUnused
    /\ monitor = MonitorInit("reader")
    /\ \E data \in EnsureInputs, error_fn \in BOOLEAN :
            \/ reader = ReaderSetup("data", data, 0, error_fn)
            \/ \E fill \in {"file", "minus"}, chunk \in {2, 4} :
                    reader = End(bjd_reader_set_error_handler(
                                    bjd_reader_set_fill(
                                        [bjd_reader_init(BJDATA_READER_MINIMUM_BUFFER_SIZE, << >>)
                                            EXCEPT !.source = data, !.chunk = chunk],
                                        fill),
                                    error_fn))

NextEnsure ==
    \/ Ensure
    \/ ReadInplace
    \/ ReaderDestroy

SpecEnsure == InitEnsure /\ [][NextEnsure]_vars

(***************************************************************************)
(* Properties.                                                             *)
(***************************************************************************)
\* the calls that put an element into the enclosing compound (an ext is
\* refused outright by a writer in v4 mode, before it is counted)
WriterElement ==
    \/ WriteNil \/ StartArray \/ StartMap \/ StartStr \/ StartBin
    \/ (writer.version > bjd_version_v4 /\ StartExt)

\* the write, start_* and finish_* calls
WriterWrite ==
    \/ WriterElement \/ StartExt
    \/ WriteBytes
    \/ FinishArray \/ FinishMap \/ FinishStr \/ FinishBin \/ FinishExt

MonTop == monitor.stack[Len(monitor.stack)]

TrackTop(w) == w.track.elements[Len(w.track.elements)]

\* the instance the behaviour drives
Focus ==
    CASE monitor.who = "writer" -> writer
      [] monitor.who = "reader" -> reader
      [] monitor.who = "tree" -> tree

\* C1: on every writer, reader and tree the latched error is write-once:
\* once it is some kind other than ok, no operation (a failing one, an
\* explicit flag_error with another kind, destroy) changes it.
C1_LatchedErrorIsWriteOnce ==
    [][/\ writer.error # bjd_ok => writer'.error = writer.error
       /\ reader.error # bjd_ok => reader'.error = reader.error
       /\ tree.error # bjd_ok => tree'.error = tree.error]_vars

\* a reader that latched bug, was then flagged with another kind, and was destroyed
C1_Witness ==
    /\ reader.error = bjd_error_bug
    /\ monitor.reflagged
    /\ reader.life = "destroyed"
    /\ reader.destroy_return = bjd_error_bug

\* C2: once the writer has latched an error, every write, start_* and
\* finish_* call leaves the buffer's used byte count and contents unchanged.
C2_WriteAfterErrorLeavesBuffer ==
    [][(writer.error # bjd_ok /\ WriterWrite) => writer'.buffer = writer.buffer]_vars

\* C3: over the whole life of an instance, a second destroy after the error
\* callback left the first one non-locally included, the error callback is
\* invoked at most once.
C3_ErrorCallbackAtMostOnce ==
    /\ writer.error_calls <= 1
    /\ reader.error_calls <= 1
    /\ tree.error_calls <= 1

\* a reader destroyed twice, the callback having left the first destroy
C3_Witness ==
    /\ reader.life = "destroyed"
    /\ reader.destroy_calls = 2
    /\ reader.error_calls = 1

\* C4: every transition of an instance's error from ok to another kind,
\* with an error callback installed, invokes the callback exactly once with
\* the latched kind.
C4_EveryLatchInvokesCallback ==
    [][/\ (writer.error = bjd_ok /\ writer'.error # bjd_ok /\ writer.error_fn)
            => (writer'.error_calls = writer.error_calls + 1
                /\ writer'.error_arg = writer'.error)
       /\ (reader.error = bjd_ok /\ reader'.error # bjd_ok /\ reader.error_fn)
            => (reader'.error_calls = reader.error_calls + 1
                /\ reader'.error_arg = reader'.error)
       /\ (tree.error = bjd_ok /\ tree'.error # bjd_ok /\ tree.error_fn)
            => (tree'.error_calls = tree.error_calls + 1
                /\ tree'.error_arg = tree'.error)]_vars

\* C5: on a tracked writer, a balanced sequence (every array, map, str, bin
\* and ext closed once, innermost first, under its own kind, with exactly
\* the declared count) latches no bug, and destroy then returns ok.
C5_BalancedSequenceIsAccepted ==
    /\ (monitor.who = "writer" /\ monitor.conform) => writer.error # bjd_error_bug
    /\ (monitor.who = "writer" /\ monitor.conform /\ monitor.stack = << >>
            /\ writer.life = "destroyed")
        => writer.destroy_return = bjd_ok

\* C6: with tracking, on the writer and on the reader alike, the call that
\* closes under another kind than the innermost open compound, closes
\* before the declared count is used up, adds an element beyond an array's
\* or map's count, or passes more payload bytes than declared, latches bug.
C6_BreachLatchesBug ==
    monitor.breach \in {"kind", "early", "extra", "excess"} => Focus.error = bjd_error_bug

\* a reader was asked for more payload bytes than the str, bin or ext declared
C6_Witness ==
    /\ monitor.who = "reader"
    /\ monitor.breach = "excess"
    /\ reader.error = bjd_error_bug
    /\ reader.life = "live"

\* C7: destroying a writer that has a compound still open, and no error
\* latched before, latches bjd_error_bug and destroy does not return ok.
C7_DestroyWithOpenCompoundIsBug ==
    [][(WriterDestroy /\ writer.error = bjd_ok /\ monitor.conform
            /\ monitor.stack # << >> /\ writer'.life = "destroyed")
        => (writer'.error = bjd_error_bug /\ writer'.destroy_return # bjd_ok)]_vars

\* C8: in a map declared with N pairs, after k elements the tracker's
\* remaining pair count is N - floor(k / 2); each of the first 2N elements
\* is accepted, the (2N+1)-th latches bjd_error_bug, and closing the map
\* while a key waits for its value latches bjd_error_bug.
C8_MapPairCounting ==
    [][/\ (monitor'.who = "writer" /\ writer'.error = bjd_ok /\ monitor'.conform
              /\ monitor'.stack # << >> /\ MonTop'.kind = "map")
          => /\ TrackTop(writer').type = bjd_type_map
             /\ TrackTop(writer').left = MonTop'.declared - (MonTop'.seen \div 2)
             /\ TrackTop(writer').key_needs_value = (MonTop'.seen % 2 = 1)
       /\ (writer.error = bjd_ok /\ monitor.conform /\ monitor.stack # << >>
              /\ MonTop.kind = "map" /\ WriterElement)
          => IF MonTop.seen < 2 * MonTop.declared
             THEN writer'.error = bjd_ok
             ELSE writer'.error = bjd_error_bug
       /\ (writer.error = bjd_ok /\ monitor.conform /\ monitor.stack # << >>
              /\ MonTop.kind = "map" /\ MonTop.seen % 2 = 1 /\ FinishMap)
          => writer'.error = bjd_error_bug
      ]_vars

\* a map of one pair took its key and its value and a third element was refused
C8_Witness ==
    /\ monitor.who = "writer"
    /\ writer.error = bjd_error_bug
    /\ monitor.stack # << >>
    /\ MonTop.kind = "map" /\ MonTop.declared = 1 /\ MonTop.seen = 2
    /\ monitor.breach = "extra"
    /\ TrackTop(writer).left = 0


IsPrefix(a, b) == Len(a) <= Len(b) /\ SubSeq(b, 1, Len(a)) = a

\* C9: with a flush callback and a buffer of at least 32 bytes, the bytes the
\* sink has received are at every moment a prefix of the bytes the encode
\* operations have produced, and are all of them once destroy has returned ok.
C9_FlushedIsPrefixOfProduced ==
    (writer.size >= 32 /\ (writer.flush # "NULL" \/ writer.flush_calls > 0)) =>
        /\ IsPrefix(writer.sink, writer.produced)
        /\ (writer.life = "destroyed" /\ writer.destroy_return = bjd_ok) =>
                writer.sink = writer.produced

\* a string longer than the buffer went to the sink in several flushes, more
\* was written after it, and destroy returned ok
C9_Witness ==
    /\ writer.life = "destroyed"
    /\ writer.destroy_return = bjd_ok
    /\ writer.flush_calls >= 3
    /\ Len(writer.sink) > writer.size
    /\ writer.sink = writer.produced


\* C10: the tags a writer emitted without error, compound headers with their
\* payload bytes or children included, are read back by read_tag as tags
\* equal to them one by one under tag_equal.
C10_TagsRoundTrip ==
    /\ Len(monitor.read) <= Len(monitor.written)
    /\ \A i \in DOMAIN monitor.read : bjd_tag_equal(monitor.written[i], monitor.read[i])


\* the nodes of a message parsed in one go from memory
TreeOf(data) == bjd_tree_parse(bjd_tree_init_data(data)).nodes

\* C11: on a non-blocking stream, a try-parse call made before the whole
\* message has been delivered (the read callback returns 0 during it) returns
\* false, latches no error and leaves the parse in progress; a try-parse call
\* made once the rest has been delivered returns true with the complete tree.
C11_TryParseResumes ==
    [][(StreamTryParse /\ tree.error = bjd_ok
            /\ tree.parser.state # bjd_tree_parse_state_parsed)
        => IF tree.pending # << >>
           THEN /\ tree'.parse_return = "false"
                /\ tree'.error = bjd_ok
                /\ tree'.parser.state = bjd_tree_parse_state_in_progress
           ELSE /\ tree'.parse_return = "true"
                /\ tree'.error = bjd_ok
                /\ tree'.parser.state = bjd_tree_parse_state_parsed
                /\ tree'.size = Len(tree'.data)
                /\ tree'.nodes = TreeOf(tree'.data)]_vars


\* the nodes handed out of the tree's pool or pages for the current message
NodesTaken(t) ==
    IF t.pool
    THEN (IF t.parser.state = bjd_tree_parse_state_not_started THEN 0
          ELSE t.pool_count - t.parser.nodes_left)
    ELSE (IF t.next = 0 THEN 0
          ELSE t.next * BJDATA_NODES_PER_PAGE - t.parser.nodes_left)

\* C12: at every point of a tree parse the nodes allocated for the message
\* are no more than the bytes of it received so far: a header declaring more
\* children than there are bytes not yet reserved is turned down before any
\* node is taken for its children.
C12_NodesWithinBytesReceived ==
    NodesTaken(tree) <= Len(tree.data)

\* the header of a map of 65535 pairs with no byte after it was refused with
\* only the root node taken
C12_Witness ==
    /\ tree.data = <<222, 255, 255>>
    /\ tree.error = bjd_error_invalid
    /\ tree.node_count > Len(tree.data)
    /\ NodesTaken(tree) = 1


\* C13: a tree whose limits were set never finishes a parse with a message of
\* more than max_size bytes or of more than max_nodes nodes, whether its data
\* was handed over whole or comes from a stream.
C13_LimitsBoundEveryParse ==
    (tree.parser.state = bjd_tree_parse_state_parsed /\ tree.error = bjd_ok) =>
        /\ tree.size <= tree.max_size
        /\ Len(tree.nodes) <= tree.max_nodes


\* every byte of the tree's source from the start of the current message on:
\* buffered, arrived and still to arrive
TreeSource(t) == t.data \o t.source \o t.pending

\* what a parse of "data" alone yields
FirstMessage(data) == bjd_tree_parse(bjd_tree_init_data(data))

\* C14: repeated parse calls on one tree hand out the concatenated messages
\* of its source one per call and in order: a successful parse consumes the
\* bytes of exactly one message, starting at the byte after the message parsed
\* before it, and the bytes buffered beyond that message are kept.
C14_ParseTakesTheNextMessage ==
    [][((TreeParse \/ TreeTryParse)
            /\ tree.error = bjd_ok /\ tree'.error = bjd_ok
            /\ tree'.parser.state = bjd_tree_parse_state_parsed)
        => LET consumed == IF tree.parser.state = bjd_tree_parse_state_parsed
                           THEN tree.size ELSE 0
               rest == SubSeq(TreeSource(tree), consumed + 1, Len(TreeSource(tree)))
           IN  /\ TreeSource(tree') = rest
               /\ FirstMessage(rest).error = bjd_ok
               /\ tree'.size = FirstMessage(rest).size
               /\ tree'.nodes = FirstMessage(rest).nodes]_vars

\* the second message of a stream was parsed from the byte after the first,
\* which a later fill had to fetch
C14_Witness ==
    /\ tree.read_fn # "NULL"
    /\ tree.error = bjd_ok
    /\ tree.parser.state = bjd_tree_parse_state_parsed
    /\ tree.data = <<195>>
    /\ tree.size = 1
    /\ Len(tree.nodes) = 1
    /\ tree.nodes[1].type = bjd_type_bool


\* C15: once an error is latched on a reader, a read_tag call returns a nil
\* tag and leaves the reader as it was: no byte consumed, no call of the fill
\* callback, the same error.
C15_ReadTagAfterErrorIsNil ==
    [][(TagRead /\ reader.error # bjd_ok)
        => /\ monitor'.returned = TagPlain(bjd_tag_nil)
           /\ reader'.error = reader.error
           /\ reader'.fill_calls = reader.fill_calls
           /\ reader' = reader]_vars

\* read_tag was called on a reader with a fill callback and an open compound
\* after an error was latched
C15_Witness ==
    /\ monitor.last = "read"
    /\ monitor.after >= 1
    /\ reader.error # bjd_ok
    /\ reader.fill # "NULL"
    /\ reader.track.elements # << >>

\* C16: peek_tag moves neither the read position nor the tracker, and the
\* read_tag that follows any number of peek_tag calls returns the tag each of
\* them returned and leaves the reader as a read_tag without them would.
C16_PeekThenReadIsRead ==
    [][/\ TagPeek =>
            /\ reader'.track = reader.track
            /\ reader'.error = bjd_ok => reader'.data \o reader'.source = reader.data \o reader.source
       /\ (TagRead /\ monitor.calls # << >>) =>
            /\ \A i \in DOMAIN monitor.calls : monitor.calls[i].tag = monitor'.returned
            /\ \E env \in ReaderEnvs(monitor.calls[1].from, BOOLEAN) :
                    reader' = End(bjd_read_tag(Begin(monitor.calls[1].from, env)).r)]_vars

\* two peek_tag calls on a reader with a fill callback, inside an array,
\* were followed by the read_tag of the tag they showed
C16_Witness ==
    /\ monitor.last = "read"
    /\ monitor.ops = 4
    /\ reader.error = bjd_ok
    /\ reader.fill # "NULL"
    /\ Len(reader.track.elements) = 1
    /\ reader.track.elements[1].left = 1
    /\ monitor.returned = TagPlain(bjd_tag_nil)


\* C16 as the code has it: peek_tag moves neither the read position nor the
\* tracker, and the read_tag that follows any number of peek_tag calls returns
\* the tag each of them returned; it leaves the reader as a read_tag without
\* them would, except that when that read_tag fails the peek_tag calls have
\* latched its error without counting the element in the tracker.
C16_PeekThenReadIsReadUnlessFailed ==
    [][/\ TagPeek =>
            /\ reader'.track = reader.track
            /\ reader'.error = bjd_ok => reader'.data \o reader'.source = reader.data \o reader.source
       /\ (TagRead /\ monitor.calls # << >>) =>
            /\ \A i \in DOMAIN monitor.calls : monitor.calls[i].tag = monitor'.returned
            /\ \E env \in ReaderEnvs(monitor.calls[1].from, BOOLEAN) :
                    LET alone == End(bjd_read_tag(Begin(monitor.calls[1].from, env)).r)
                    IN  reader' = IF alone.error = bjd_ok THEN alone
                                  ELSE [alone EXCEPT !.track = monitor.calls[1].from.track]]_vars


\* C17: a growable writer hands its caller nothing before destroy; destroy
\* without a latched error hands over a buffer whose first length bytes are
\* the bytes written, in order, however often the buffer was grown; destroy
\* with a latched error leaves the caller's pointer NULL and size 0.
C17_GrowableHandsOverWhatWasWritten ==
    IF writer.life = "destroyed" /\ writer.error = bjd_ok
    THEN /\ writer.target_set
         /\ writer.target_size = Len(writer.produced)
         /\ SubSeq(writer.target_data, 1, writer.target_size) = writer.produced
    ELSE ~writer.target_set /\ writer.target_size = 0

\* a buffer grown at least twice was handed over whole
C17_Witness ==
    /\ writer.life = "destroyed"
    /\ writer.error = bjd_ok
    /\ writer.flush_calls >= 3
    /\ writer.target_size > 2 * BJDATA_BUFFER_SIZE
    /\ writer.target_data = writer.produced


\* C18: the flush callback is never invoked on a writer with a latched
\* error, neither by a write operation nor by destroy.
C18_NoFlushAfterError == ~writer.flush_after_error

\* a writer with a flush callback and bytes in its buffer was written to and
\* destroyed after an error was latched
C18_Witness ==
    /\ writer.life = "destroyed"
    /\ writer.error # bjd_ok
    /\ writer.flush # "NULL"
    /\ writer.flush_calls >= 1
    /\ monitor.after >= 1
    /\ bjd_writer_buffer_used(writer) > 0


\* C19: a destroy that returns has invoked the teardown callback, whether or
\* not an error is latched, and has invoked it after the flush of the bytes
\* still buffered, which it makes when no error is latched.
C19_DestroyTearsDownAfterFlush ==
    [][(WriterDestroy /\ writer.teardown # "NULL" /\ writer'.life = "destroyed")
        => /\ writer'.teardown_calls = writer.teardown_calls + 1
           /\ ~writer'.teardown_before_flush
           /\ (writer.life = "live" /\ writer.error = bjd_ok /\ writer.flush # "NULL"
                    /\ bjd_writer_buffer_used(writer) # 0)
                => writer'.flush_calls = writer.flush_calls + 1]_vars

\* a writer with a latched error and bytes in its buffer was destroyed and
\* its teardown callback invoked
C19_Witness ==
    /\ writer.life = "destroyed"
    /\ writer.error = bjd_error_bug
    /\ writer.teardown_calls = 1
    /\ writer.flush_calls >= 1
    /\ bjd_writer_buffer_used(writer) > 0


\* C20: an emission that does not fit in the free space of the buffer
\* latches too_big when no flush is installed; with a flush installed the
\* buffer is flushed and the emission goes ahead when it then fits, and
\* too_big is latched when it still does not fit.  Taken here for the payload
\* of a str of more than 31 bytes, which is one emission of n bytes made
\* after the header.
C20_UnfitEmissionLatchesTooBig ==
    [][\A n \in StrLengths :
        (WriteStrOf(n) /\ n > 31 /\ writer.error = bjd_ok /\ writer'.life = "live"
            /\ n > bjd_writer_buffer_left(writer))
        => IF writer.flush = "NULL" THEN writer'.error = bjd_error_too_big
           ELSE IF n <= bjd_writer_buffer_size(writer)
           THEN writer'.error = bjd_ok =>
                    writer'.produced = writer.produced \o bjd_encode_str(n, writer.version)
                                                       \o Payload(n)
           ELSE writer'.error = bjd_error_too_big]_vars


C22_BlockingParseStarvedLatchesIo ==
    [][(TreeParse /\ tree.error = bjd_ok /\ tree.read_fn # "NULL" /\ tree'.starved)
        => /\ tree'.error = bjd_error_io
           /\ tree'.parser.state # bjd_tree_parse_state_parsed]_vars

C22_Witness ==
    /\ tree.read_fn # "NULL"
    /\ tree.starved
    /\ tree.parse_return = "none"
    /\ Len(tree.data) >= 1
    /\ tree.error = bjd_error_io
    /\ tree.error_arg = bjd_error_io

\* the bytes of a tree's data that no finished parse has consumed
TreeUnparsed(t) == SubSeq(t.data, t.size + 1, Len(t.data))

\* C23: with a caller-supplied pool of N node slots the parser never hands
\* out a node beyond slot N, and a parse of a well-formed message of more
\* than N nodes latches bjd_error_too_big.
C23_PoolBoundsTheParse ==
    [][/\ tree'.pool => /\ NodesTaken(tree') <= tree'.pool_count
                        /\ Len(tree'.nodes) <= tree'.pool_count
       /\ (/\ TreeParse
           /\ tree.pool
           /\ tree.error = bjd_ok
           /\ FirstMessage(TreeUnparsed(tree)).error = bjd_ok
           /\ FirstMessage(TreeUnparsed(tree)).node_count > tree.pool_count)
          => tree'.error = bjd_error_too_big]_vars

\* a four-node message met a pool of three: the pool was filled to its last
\* slot and the parse refused
C23_Witness ==
    /\ tree.pool
    /\ tree.pool_count = 3
    /\ tree.data = <<129, 160, 145, 192>>
    /\ NodesTaken(tree) = 3
    /\ tree.error = bjd_error_too_big

(***************************************************************************)
(* Cancelling: a writer or a reader on which the caller latches            *)
(* bjd_error_data in the middle of a document, and its destroy.            *)
(***************************************************************************)
InitCancel ==
    /\ build = [BJDATA_EXTENSIONS |-> TRUE]
    /\ (InitWriter \/ InitReader)

NextCancel ==
    \/ WriteNil
    \/ StartArray
    \/ StartMap
    \/ FinishArray
    \/ WriterCancel
    \/ WriterDestroy
    \/ ReadTag
    \/ DoneArray
    \/ ReaderCancel
    \/ ReaderDestroy

SpecCancel == InitCancel /\ [][NextCancel]_vars

\* C24: a destroy of a writer or a reader on which bjd_error_data is latched
\* while compounds are open raises no unclosed-compound break, calls no
\* error handler, and returns bjd_error_data.
C24_CancelledDestroyReturnsData ==
    [][/\ (/\ WriterDestroy
           /\ writer.error = bjd_error_data
           /\ Len(writer.track.elements) > 0
           /\ writer'.life = "destroyed")
          => /\ ~writer'.track.unclosed
             /\ writer'.error_calls = writer.error_calls
             /\ writer'.error = bjd_error_data
             /\ writer'.destroy_return = bjd_error_data
       /\ (/\ ReaderDestroy
           /\ reader.error = bjd_error_data
           /\ Len(reader.track.elements) > 0
           /\ reader'.life = "destroyed")
          => /\ ~reader'.track.unclosed
             /\ reader'.error_calls = reader.error_calls
             /\ reader'.error = bjd_error_data
             /\ reader'.destroy_return = bjd_error_data]_vars

\* a reader cancelled inside an array it had begun to read was destroyed
C24_Witness ==
    /\ monitor.who = "reader"
    /\ reader.life = "destroyed"
    /\ Len(reader.track.elements) > 0
    /\ monitor.stack # << >>
    /\ reader.destroy_return = bjd_error_data

(***************************************************************************)
(* Nodes: a tree over one message in memory is parsed once and queried     *)
(* through node handles; each query is made on the node the last           *)
(* node-returning call gave.                                               *)
(***************************************************************************)
NodeInputs ==
    { <<130, 161, 97, 1, 161, 98, 195>>,        \* {"a": 1, "b": true}
      <<130, 161, 97, 1, 161, 97, 2>>,          \* {"a": 1, "a": 2}
      <<130, 161, 97, 145, 192, 161, 98, 2>>,   \* {"a": [nil], "b": 2}
      <<130, 5, 192, 208, 5, 195>>,             \* {5: nil, int8 5: true}
      <<130, 208, 5, 195, 255, 192>>,           \* {int8 5: true, -1: nil}
      <<129, 7, 195>>,                          \* {7: true}
      <<146, 192, 195>>,                        \* [nil, true]
      <<192>>,
      <<161, 97>> }

NodeStrKeys == { <<97>>, <<98>>, <<99>>, <<97, 98>> }

NodeIntKeys == { i64(5), i64(7), i64(0 - 1) }

NodeIndexes == {0, 1, 2}

NodeSet(result, call) ==
    [result.t EXCEPT !.answer = [@ EXCEPT !.call = call, !.node = result.node]]

NodeGot(result, call) ==
    [result.t EXCEPT !.answer = [[@ EXCEPT !.call = call, !.value = << >>, !.count = 0,
                                           !.flag = FALSE, !.type = bjd_type_missing]
                                    EXCEPT ![result.field] = result.value]]

NodeParse == tree.parser.state = bjd_tree_parse_state_not_started /\ TreeParse

NodeRoot == TreeCall(LAMBDA t : NodeSet(bjd_tree_root(t), "root"), Before)

NodeMapStrOf(str) ==
    /\ tree.answer.node # 0
    /\ TreeCall(LAMBDA t : NodeSet(bjd_node_map_str(t, t.answer.node, str), "map_str"),
                Before)

NodeMapStr == \E str \in NodeStrKeys : NodeMapStrOf(str)

NodeMapStrOptionalOf(str) ==
    /\ tree.answer.node # 0
    /\ TreeCall(LAMBDA t : NodeSet(bjd_node_map_str_optional(t, t.answer.node, str),
                                   "map_str_optional"),
                Before)

NodeMapStrOptional == \E str \in NodeStrKeys : NodeMapStrOptionalOf(str)

NodeMapIntOf(num) ==
    /\ tree.answer.node # 0
    /\ TreeCall(LAMBDA t : NodeSet(bjd_node_map_int(t, t.answer.node, num), "map_int"),
                Before)

NodeMapInt == \E num \in NodeIntKeys : NodeMapIntOf(num)

NodeMapUintOf(num) ==
    /\ tree.answer.node # 0
    /\ TreeCall(LAMBDA t : NodeSet(bjd_node_map_uint(t, t.answer.node, num), "map_uint"),
                Before)

NodeMapUint == \E num \in NodeIntKeys : NodeMapUintOf(num)

NodeArrayAt ==
    /\ tree.answer.node # 0
    /\ \E index \in NodeIndexes :
            TreeCall(LAMBDA t : NodeSet(bjd_node_array_at(t, t.answer.node, index),
                                        "array_at"),
                     Before)

NodeQuery ==
    /\ tree.answer.node # 0
    /\ \/ TreeCall(LAMBDA t : NodeGot(bjd_node_type(t, t.answer.node), "type"), Before)
       \/ TreeCall(LAMBDA t : NodeGot(bjd_node_is_nil(t, t.answer.node), "is_nil"), Before)
       \/ TreeCall(LAMBDA t : NodeGot(bjd_node_bool(t, t.answer.node), "bool"), Before)
       \/ TreeCall(LAMBDA t : NodeGot(bjd_node_u64(t, t.answer.node), "u64"), Before)
       \/ TreeCall(LAMBDA t : NodeGot(bjd_node_strlen(t, t.answer.node), "strlen"), Before)

\* the comparison of the int tag and the uint tag of one 64-bit pattern
NodeTagCmpOf(num) ==
    TreeCall(LAMBDA t : [t EXCEPT !.answer =
                            [@ EXCEPT !.call = "tag_cmp",
                                      !.value = num,
                                      !.count = bjd_tag_cmp(bjd_tag_make_int(num),
                                                            bjd_tag_make_uint(num)),
                                      !.flag = bjd_tag_equal(bjd_tag_make_uint(num),
                                                             bjd_tag_make_int(num))]],
             Before)

NodeTagCmp == \E num \in NodeIntKeys : NodeTagCmpOf(num)

InitNode ==
    /\ build = [BJDATA_EXTENSIONS |-> TRUE]
    /\ writer = WriterUnused
    /\ reader = ReaderUnused
    /\ \E data \in NodeInputs, error_fn \in BOOLEAN :
            tree = TreeSetup("data", data, 0, 0, error_fn)
    /\ monitor = MonitorInit("tree")

NextNode ==
    \/ NodeParse
    \/ NodeRoot
    \/ NodeMapStr
    \/ NodeMapStrOptional
    \/ NodeMapInt
    \/ NodeMapUint
    \/ NodeArrayAt
    \/ NodeQuery
    \/ NodeTagCmp
    \/ TreeFlagError
    \/ TreeDestroy

SpecNode == InitNode /\ [][NextNode]_vars

\* the entries of the map "data" whose key is the string "str"
NodeStrEntries(t, data, str) ==
    { i \in 0..(t.nodes[data].len - 1) :
        LET key == t.nodes[bjd_node_child(t, data, i * 2)]
        IN  key.type = bjd_type_str /\ SubSeq(t.data, key.value + 1, key.value + key.len) = str }

\* C25: a string lookup in a parsed map returns the value of the entry whose
\* key is K when exactly one entry has that key; when none has, the strict
\* lookup latches bjd_error_data and returns the nil node while the optional
\* lookup returns the missing node and latches nothing; when two or more
\* have, bjd_error_data is latched.
C25_MapLookupByKey ==
    [][\A str \in NodeStrKeys :
        ((NodeMapStrOf(str) \/ NodeMapStrOptionalOf(str))
            /\ tree.error = bjd_ok
            /\ tree.answer.node >= 1
            /\ tree.nodes[tree.answer.node].type = bjd_type_map)
        => LET map == tree.answer.node
               entries == NodeStrEntries(tree, map, str)
           IN  CASE Cardinality(entries) = 1 ->
                        /\ tree'.error = bjd_ok
                        /\ \E i \in entries :
                                tree'.answer.node = bjd_node_child(tree, map, i * 2 + 1)
                 [] Cardinality(entries) = 0 /\ NodeMapStrOf(str) ->
                        /\ tree'.error = bjd_error_data
                        /\ tree'.answer.node = bjd_tree_nil_node
                 [] Cardinality(entries) = 0 /\ ~NodeMapStrOf(str) ->
                        /\ tree'.error = bjd_ok
                        /\ tree'.answer.node = bjd_tree_missing_node
                 [] OTHER -> tree'.error = bjd_error_data]_vars

\* the strict lookup of "c" in {"a": 1, "b": true} latched data and gave nil
C25_Witness ==
    /\ tree.data = <<130, 161, 97, 1, 161, 98, 195>>
    /\ tree.answer.call = "map_str"
    /\ tree.answer.node = bjd_tree_nil_node
    /\ tree.error = bjd_error_data
    /\ monitor.after = 0

\* the entries of the map "data" whose key is an integer, of either type,
\* holding the 64-bit pattern "num"
NodeIntEntries(t, data, num) ==
    { i \in 0..(t.nodes[data].len - 1) :
        LET key == t.nodes[bjd_node_child(t, data, i * 2)]
        IN  key.type \in {bjd_type_int, bjd_type_uint} /\ key.value = num }

\* C26: for a non-negative value, the int tag and the uint tag holding it
\* compare equal under bjd_tag_cmp and bjd_tag_equal, and bjd_node_map_int
\* and bjd_node_map_uint both return the value of the one entry whose key
\* holds it, whether the key was stored as an int or as a uint.
C26_IntAndUintKeysAgree ==
    [][\A num \in NodeIntKeys :
        num[1] < 128 =>
            /\ NodeTagCmpOf(num) => (tree'.answer.count = 0 /\ tree'.answer.flag)
            /\ ((NodeMapIntOf(num) \/ NodeMapUintOf(num))
                    /\ tree.error = bjd_ok
                    /\ tree.answer.node >= 1
                    /\ tree.nodes[tree.answer.node].type = bjd_type_map
                    /\ Cardinality(NodeIntEntries(tree, tree.answer.node, num)) = 1)
               => /\ tree'.error = bjd_ok
                  /\ \E i \in NodeIntEntries(tree, tree.answer.node, num) :
                        tree'.answer.node = bjd_node_child(tree, tree.answer.node, i * 2 + 1)]_vars

\* bjd_node_map_uint of 5 found the value under the key stored as int8 5
C26_Witness ==
    /\ tree.data = <<130, 208, 5, 195, 255, 192>>
    /\ tree.answer.call = "map_uint"
    /\ tree.answer.node = 3
    /\ tree.error = bjd_ok

\* a query step
NodeAsked ==
    \/ NodeRoot
    \/ NodeMapStr
    \/ NodeMapStrOptional
    \/ NodeMapInt
    \/ NodeMapUint
    \/ NodeArrayAt
    \/ NodeQuery

\* what a query answers on a tree in an error state, "is_nil" being the
\* answer of bjd_node_is_nil
NodeAnswerInError(answer, is_nil) ==
    CASE answer.call \in {"root", "map_str", "map_str_optional", "map_int", "map_uint",
                          "array_at"} -> answer.node = bjd_tree_nil_node
      [] answer.call = "type" -> answer.type = bjd_type_nil
      [] answer.call = "is_nil" -> answer.flag = is_nil
      [] answer.call = "bool" -> answer.flag = FALSE
      [] answer.call = "u64" -> answer.value = u64(0)
      [] answer.call = "strlen" -> answer.count = 0

IntSamples ==
    { u64(0), u64(1), u64(127), u64(128), u64(200), u64(255), u64(256), u64(65535),
      u64(65536), u64(70000), UINT32_MAX_u64, <<0, 0, 0, 1, 0, 0, 0, 0>>,
      <<127, 255, 255, 255, 255, 255, 255, 255>>,
      i64(0 - 1), i64(0 - 32), i64(0 - 33), INT8_MIN_i64, i64(0 - 129), INT16_MIN_i64,
      i64(0 - 32769), INT32_MIN_i64, <<255, 255, 255, 255, 127, 255, 255, 255>>,
      <<128, 0, 0, 0, 0, 0, 0, 0>> }

WriteU64Of(value) ==
    /\ Len(writer.buffer) <= 1
    /\ WriterCall(LAMBDA w : bjd_write_u64(w, value), MonElement(Before))

WriteU64 == \E value \in IntSamples : WriteU64Of(value)

WriteI64Of(value) ==
    /\ Len(writer.buffer) <= 1
    /\ WriterCall(LAMBDA w : bjd_write_i64(w, value), MonElement(Before))

WriteI64 == \E value \in IntSamples : WriteI64Of(value)

InitInts ==
    /\ build = [BJDATA_EXTENSIONS |-> TRUE]
    /\ InitWriter

NextInts == WriteU64 \/ WriteI64 \/ WriterDestroy

SpecInts == InitInts /\ [][NextInts]_vars

\* the bytes the step appended to the writer's buffer
Emitted == SubSeq(writer'.buffer, Len(writer.buffer) + 1, Len(writer'.buffer))

\* "value" fits the unsigned (for a negative value, the two's complement
\* signed) integer of "n" bytes
IntCovers(value, n, negative) ==
    IF negative
    THEN (\A i \in 1..(8 - n) : value[i] = 255) /\ value[9 - n] >= 128
    ELSE \A i \in 1..(8 - n) : value[i] = 0

\* the wire form the format assigns: one byte for -32..127, else the marker
\* of the smallest covering width and the value in that width
IntWire(value, negative) ==
    LET n == CHOOSE n \in {1, 2, 4, 8} :
                /\ IntCovers(value, n, negative)
                /\ \A m \in {1, 2, 4, 8} : IntCovers(value, m, negative) => n <= m
        marker == (IF negative THEN 208 ELSE 204)
                    + (CASE n = 1 -> 0 [] n = 2 -> 1 [] n = 4 -> 2 [] n = 8 -> 3)
    IN  IF IntCovers(value, 1, negative) /\ (IF negative THEN value[8] >= 224
                                             ELSE value[8] <= 127)
        THEN <<value[8]>>
        ELSE <<marker>> \o Truncate(value, n)

\* C28: an integer written through the writer is emitted in one byte when it
\* is in -32..127 and otherwise in the smallest of the 2, 3, 5 and 9 byte
\* forms (unsigned when it is not negative, signed when it is) that covers
\* it; 1 is emitted as 01, 200 as CC C8 and 70000 as CE 00 01 11 70.
C28_IntegersTakeTheSmallestForm ==
    [][\A value \in IntSamples :
        /\ (WriteU64Of(value) /\ writer.error = bjd_ok /\ writer'.error = bjd_ok)
            => (Emitted = IntWire(value, FALSE) /\ Len(Emitted) \in {1, 2, 3, 5, 9})
        /\ (WriteI64Of(value) /\ writer.error = bjd_ok /\ writer'.error = bjd_ok)
            => (Emitted = IntWire(value, value[1] >= 128)
                    /\ Len(Emitted) \in {1, 2, 3, 5, 9})
        /\ ((WriteU64Of(value) \/ WriteI64Of(value))
                /\ writer.error = bjd_ok /\ writer'.error = bjd_ok)
            => /\ value = u64(1) => Emitted = <<1>>
               /\ value = u64(200) => Emitted = <<204, 200>>
               /\ value = u64(70000) => Emitted = <<206, 0, 1, 17, 112>>]_vars

\* 200 was written after a value of one byte
C28_Witness ==
    /\ writer.error = bjd_ok
    /\ Len(writer.buffer) = 3
    /\ SubSeq(writer.buffer, 2, 3) = <<204, 200>>
    /\ monitor.ops = 2

(***************************************************************************)
(* Headers: a writer over a buffer in memory, opening arrays, maps and     *)
(* strings of counts on both sides of every change of header form.         *)
(***************************************************************************)
HeaderCounts == {0, 1, 15, 16, 31, 32, 40, 255, 256, 65535, 65536}

HeaderArrayOf(n) ==
    /\ CanOpen
    /\ Len(writer.buffer) <= 1
    /\ WriterCall(LAMBDA w : bjd_start_array(w, n), MonOpen(Before, "array", n))

HeaderArray == \E n \in HeaderCounts : HeaderArrayOf(n)

HeaderMapOf(n) ==
    /\ CanOpen
    /\ Len(writer.buffer) <= 1
    /\ WriterCall(LAMBDA w : bjd_start_map(w, n), MonOpen(Before, "map", n))

HeaderMap == \E n \in HeaderCounts : HeaderMapOf(n)

HeaderStrOf(n) ==
    /\ CanOpen
    /\ Len(writer.buffer) <= 1
    /\ WriterCall(LAMBDA w : bjd_start_str(w, n), MonOpen(Before, "str", n))

HeaderStr == \E n \in HeaderCounts : HeaderStrOf(n)

InitHeaders ==
    /\ build = [BJDATA_EXTENSIONS |-> TRUE]
    /\ InitWriter

NextHeaders == HeaderArray \/ HeaderMap \/ HeaderStr \/ WriterDestroy

SpecHeaders == InitHeaders /\ [][NextHeaders]_vars

\* the header the format assigns to a compound of "n" elements or bytes:
\* "fix" is the first byte of the one-byte forms and "most" the largest
\* count they hold, "wide" the first byte of the 16-bit form, the 32-bit
\* form following it; "tight" says whether the 8-bit form may be used, and
\* its first byte is the one before "wide"
HeaderWire(n, fix, most, tight, wide) ==
    CASE n <= most -> <<fix + n>>
      [] n > most /\ n <= 255 /\ tight -> <<wide - 1, n>>
      [] n > most /\ (n > 255 \/ ~tight) /\ n <= 65535 -> <<wide, n \div 256, n % 256>>
      [] n > 65535 -> <<wide + 1, n \div 16777216, (n \div 65536) % 256,
                        (n \div 256) % 256, n % 256>>

\* C29: the header of an array, a map or a str takes the form its declared
\* count selects: the fix form up to 15 (31 for a str), the 16-bit form up
\* to 65535 and the 32-bit form above, a str of 32 to 255 bytes taking the
\* str8 form when and only when the writer's version is v5; a v4 writer
\* opens a str of 40 bytes with the str16 header DA 00 28.
C29_HeadersFollowTheCount ==
    [][\A n \in HeaderCounts :
        /\ (HeaderArrayOf(n) /\ writer.error = bjd_ok /\ writer'.error = bjd_ok)
            => Emitted = HeaderWire(n, 144, 15, FALSE, 220)
        /\ (HeaderMapOf(n) /\ writer.error = bjd_ok /\ writer'.error = bjd_ok)
            => Emitted = HeaderWire(n, 128, 15, FALSE, 222)
        /\ (HeaderStrOf(n) /\ writer.error = bjd_ok /\ writer'.error = bjd_ok)
            => /\ Emitted = HeaderWire(n, 160, 31, writer.version = bjd_version_v5, 218)
               /\ (Emitted[1] = 217) <=> (n \in 32..255 /\ writer.version = bjd_version_v5)
               /\ (n = 40 /\ writer.version = bjd_version_v4) => Emitted = <<218, 0, 40>>]_vars

\* a v4 writer opened a str of 40 bytes
C29_Witness ==
    /\ writer.version = bjd_version_v4
    /\ writer.error = bjd_ok
    /\ writer.buffer = <<218, 0, 40>>
    /\ Len(monitor.stack) = 1
    /\ monitor.stack[1].kind = "str"

(***************************************************************************)
(* Compatibility: a v4 or v5 writer over a buffer in memory, given ext     *)
(* values and timestamps next to values both versions have.                *)
(***************************************************************************)
TimestampSeconds == { i64(70000), <<0, 0, 0, 4, 0, 0, 0, 0>>, i64(0 - 1) }

TimestampNanoseconds == {0, 5, 1000000000}

WriteTimestamp ==
    \E seconds \in TimestampSeconds, nanoseconds \in TimestampNanoseconds :
        /\ build.BJDATA_EXTENSIONS
        /\ WriterCall(LAMBDA w : bjd_write_timestamp(w, seconds, nanoseconds),
                      IF writer.version <= bjd_version_v4
                            \/ nanoseconds > BJDATA_TIMESTAMP_NANOSECONDS_MAX
                      THEN MonAbandon(Before)
                      ELSE MonElement(Before))

InitCompat ==
    /\ build = [BJDATA_EXTENSIONS |-> TRUE]
    /\ InitWriter

NextCompat ==
    \/ WriteNil
    \/ StartArray
    \/ StartExt
    \/ WriteTimestamp
    \/ WriterDestroy

SpecCompat == InitCompat /\ [][NextCompat]_vars

\* C30: on a writer in v4 mode, the write of an ext value or of a timestamp
\* latches bjd_error_unsupported.
C30_V4ExtLatchesUnsupported ==
    [][((StartExt \/ WriteTimestamp)
            /\ writer.version = bjd_version_v4
            /\ writer.error = bjd_ok)
        => writer'.error = bjd_error_unsupported]_vars

(***************************************************************************)
(* SpecNoExt: a build without extensions.  A reader or a tree is handed    *)
(* a message that holds an ext or fixext header, at the top or as the      *)
(* element of an array, and is driven by every sequence of calls.          *)
(***************************************************************************)
ExtOpcodes == {199, 200, 201, 212, 213, 214, 215, 216}

NoExtInputs ==
    { <<op, 1, 1, 97>> : op \in ExtOpcodes }
        \cup { <<145, op, 1, 1, 97>> : op \in ExtOpcodes }
        \cup { <<192>>, <<145, 192>> }

InitNoExt ==
    /\ build = [BJDATA_EXTENSIONS |-> FALSE]
    /\ \/ /\ writer = WriterUnused
          /\ \E mode \in {"data", "file"}, data \in NoExtInputs, error_fn \in BOOLEAN :
                reader = ReaderSetup(mode, data, 2, error_fn)
          /\ tree = TreeUnused
          /\ monitor = MonitorInit("reader")
       \/ /\ writer = WriterUnused
          /\ reader = ReaderUnused
          /\ \E data \in NoExtInputs, error_fn \in BOOLEAN :
                \/ tree = TreeSetup("data", data, 0, 0, error_fn)
                \/ tree = TreeSetup("pool", data, 3, 0, error_fn)
          /\ monitor = MonitorInit("tree")

NextNoExt ==
    \/ ReadTag
    \/ DoneArray
    \/ ReaderDestroy
    \/ TreeParse
    \/ TreeDestroy

SpecNoExt == InitNoExt /\ [][NextNoExt]_vars

\* the bytes a reader has not consumed yet
ReaderUnread(r) == r.data \o r.source

\* an ext or fixext header is the next value of the bytes
ExtAhead(data) == Len(data) >= 1 /\ data[1] \in ExtOpcodes

\* an ext or fixext header is the first thing a tree parser meets in the bytes
\* that is not the header of an array of one
ExtFirst(data) ==
    \/ ExtAhead(data)
    \/ Len(data) >= 2 /\ data[1] = 145 /\ data[2] \in ExtOpcodes

\* the tracker lets the reader take one more element
TrackAdmits(track) ==
    \/ Len(track.elements) = 0
    \/ track.elements[Len(track.elements)].left > 0

\* C31: in a build without extensions, read_tag on a healthy reader whose next
\* byte is any of the ext8/16/32 or fixext1/2/4/8/16 opcodes latches
\* bjd_error_unsupported, and so does parsing a tree whose message holds such
\* an opcode where a value starts (unless the tree could not allocate its
\* first page of nodes, which latches bjd_error_memory before any byte is read).
C31_ExtOpcodesLatchUnsupported ==
    [][/\ (/\ ReadTag
           /\ ~build.BJDATA_EXTENSIONS
           /\ reader.error = bjd_ok
           /\ TrackAdmits(reader.track)
           /\ ExtAhead(ReaderUnread(reader)))
            => reader'.error = bjd_error_unsupported
       /\ (/\ TreeParse
           /\ ~build.BJDATA_EXTENSIONS
           /\ tree.error = bjd_ok
           /\ ExtFirst(TreeUnparsed(tree)))
            => /\ tree'.error \in {bjd_error_unsupported, bjd_error_memory}
               /\ tree'.pool => tree'.error = bjd_error_unsupported]_vars

\* a reader without extensions met a fixext header inside an array and latched
C31_Witness ==
    /\ ~build.BJDATA_EXTENSIONS
    /\ reader.life = "live"
    /\ reader.error = bjd_error_unsupported
    /\ Len(reader.track.elements) = 1
    /\ reader.track.elements[1].type = bjd_type_array
    /\ reader.track.elements[1].left = 0

(***************************************************************************)
(* SpecReserved: a reader or a tree, in a build with or without            *)
(* extensions, is handed a message that holds the reserved byte 0xc1 where *)
(* a value starts: at the top, as an element of an array, as a key or as a *)
(* value of a map.                                                         *)
(***************************************************************************)
ReservedMessages ==
    { <<193>>, <<145, 193>>, <<146, 192, 193>>, <<129, 193, 192>>, <<129, 192, 193>>,
      <<145, 145, 193>> }

ReservedInputs == ReservedMessages \cup { <<192>>, <<146, 192, 195>> }

InitReserved ==
    /\ \E extensions \in BOOLEAN : build = [BJDATA_EXTENSIONS |-> extensions]
    /\ \/ /\ writer = WriterUnused
          /\ \E mode \in {"data", "file"}, data \in ReservedInputs, error_fn \in BOOLEAN :
                reader = ReaderSetup(mode, data, 2, error_fn)
          /\ tree = TreeUnused
          /\ monitor = MonitorInit("reader")
       \/ /\ writer = WriterUnused
          /\ reader = ReaderUnused
          /\ \E data \in ReservedInputs, error_fn \in BOOLEAN :
                \/ tree = TreeSetup("data", data, 0, 0, error_fn)
                \/ tree = TreeSetup("pool", data, 3, 0, error_fn)
          /\ monitor = MonitorInit("tree")

NextReserved ==
    \/ ReadTag
    \/ DoneArray
    \/ DoneMap
    \/ ReaderDestroy
    \/ TreeParse
    \/ TreeDestroy

SpecReserved == InitReserved /\ [][NextReserved]_vars

\* C32: read_tag on a healthy reader whose next byte is the reserved opcode
\* 0xc1 latches bjd_error_invalid, and so does parsing a tree whose message
\* holds 0xc1 where a value starts (unless the tree could not allocate its
\* first page of nodes, which latches bjd_error_memory before any byte is read).
C32_ReservedByteLatchesInvalid ==
    [][/\ (/\ ReadTag
           /\ reader.error = bjd_ok
           /\ TrackAdmits(reader.track)
           /\ Len(ReaderUnread(reader)) >= 1
           /\ ReaderUnread(reader)[1] = 193)
            => reader'.error = bjd_error_invalid
       /\ (/\ TreeParse
           /\ tree.error = bjd_ok
           /\ TreeUnparsed(tree) \in ReservedMessages)
            => /\ tree'.error \in {bjd_error_invalid, bjd_error_memory}
               /\ tree'.pool => tree'.error = bjd_error_invalid]_vars

\* a pooled tree met the reserved byte as the value of a map's pair
C32_Witness ==
    /\ tree.life = "live"
    /\ tree.pool
    /\ tree.data = <<129, 192, 193>>
    /\ tree.error = bjd_error_invalid
    /\ tree.parser.state # bjd_tree_parse_state_parsed

(***************************************************************************)
(* SpecTimestamp: a reader over a message that is one ext, driven by       *)
(* read_tag and read_timestamp with every size a caller may pass.          *)
(***************************************************************************)
TimestampInputs ==
    { <<214, 255, 0, 1, 17, 112>>,
      <<215, 255, 238, 107, 39, 253, 0, 0, 0, 7>>,      \* 999999999 ns
      <<215, 255, 238, 107, 40, 0, 0, 0, 0, 7>>,        \* 1000000000 ns
      <<215, 255, 255, 255, 255, 255, 0, 0, 0, 0>>,
      <<199, 12, 255, 59, 154, 201, 255, 255, 255, 255, 255, 255, 255, 255, 255>>,
      <<199, 12, 255, 59, 154, 202, 0, 0, 0, 0, 0, 0, 0, 0, 1>>,
      <<199, 12, 255, 255, 255, 255, 255, 0, 0, 0, 0, 0, 0, 0, 1>>,
      <<212, 255, 7>>,
      <<213, 255, 7, 7>>,
      <<199, 5, 255, 1, 2, 3, 4, 5>>,
      <<199, 0, 255>>,
      <<216, 255, 0, 0, 0, 0, 0, 0, 0, 0, 0, 0, 0, 0, 0, 0, 0, 0>>,
      <<214, 255, 0, 1>> }                              \* cut short

TimestampSizes == {0, 1, 2, 4, 5, 8, 12, 16}

ReadTimestampOf(size) ==
    /\ build.BJDATA_EXTENSIONS
    /\ ReaderCall({TRUE}, LAMBDA r : bjd_read_timestamp(r, size), LAMBDA result : Before)

ReadTimestamp == \E size \in TimestampSizes : ReadTimestampOf(size)

InitTimestamp ==
    /\ build = [BJDATA_EXTENSIONS |-> TRUE]
    /\ writer = WriterUnused
    /\ \E mode \in {"data", "file"}, data \in TimestampInputs, error_fn \in BOOLEAN :
            reader = ReaderSetup(mode, data, 2, error_fn)
    /\ tree = TreeUnused
    /\ monitor = MonitorInit("reader")

NextTimestamp ==
    \/ ReadTag
    \/ ReadTimestamp
    \/ ReaderDestroy

SpecTimestamp == InitTimestamp /\ [][NextTimestamp]_vars

\* the reader is inside an ext with "size" payload bytes left, all available
ExtOpen(r, size) ==
    /\ Len(r.track.elements) >= 1
    /\ r.track.elements[Len(r.track.elements)].type = bjd_type_ext
    /\ r.track.elements[Len(r.track.elements)].left = size
    /\ Len(ReaderUnread(r)) >= size

\* big-endian byte strings of one length, compared as numbers
BytesLe(a, b) ==
    \/ a = b
    \/ \E i \in 1..Len(a) : a[i] < b[i] /\ \A j \in 1..(i - 1) : a[j] = b[j]

\* the nanoseconds field of a timestamp payload is at most 999,999,999: the
\* 32-bit format has none, the 64-bit format keeps it in the 30 high bits
\* and the 96-bit format in the first four bytes
NanosInRange(payload, size) ==
    CASE size = 4 -> TRUE
      [] size = 8 ->
            BytesLe(<<payload[1], payload[2], payload[3], payload[4] - (payload[4] % 4)>>,
                    <<238, 107, 39, 252>>)
      [] OTHER -> BytesLe(SubSeq(payload, 1, 4), <<59, 154, 201, 255>>)

\* C33: read_timestamp on a healthy reader latches bjd_error_invalid for every
\* size other than 4, 8 and 12; inside an ext of 4, 8 or 12 available payload
\* bytes it consumes the payload, closes the ext and latches nothing when the
\* nanoseconds are at most 999,999,999, and latches bjd_error_invalid otherwise.
C33_TimestampLengthsAndNanoseconds ==
    [][\A size \in TimestampSizes :
        (ReadTimestampOf(size) /\ reader.error = bjd_ok)
            => /\ size \notin {4, 8, 12} => reader'.error = bjd_error_invalid
               /\ (size \in {4, 8, 12} /\ ExtOpen(reader, size))
                    => IF NanosInRange(SubSeq(ReaderUnread(reader), 1, size), size)
                       THEN /\ reader'.error = bjd_ok
                            /\ Len(reader'.track.elements) = Len(reader.track.elements) - 1
                            /\ ReaderUnread(reader')
                                = SubSeq(ReaderUnread(reader), size + 1,
                                         Len(ReaderUnread(reader)))
                       ELSE reader'.error = bjd_error_invalid]_vars

\* a 96-bit timestamp of 1,000,000,000 nanoseconds was read and refused
C33_Witness ==
    /\ build.BJDATA_EXTENSIONS
    /\ reader.life = "live"
    /\ reader.fill = "NULL"
    /\ reader.error = bjd_error_invalid
    /\ Len(reader.track.elements) = 0
    /\ monitor.ops = 2

(***************************************************************************)
(* SpecUtf8: the UTF-8 checks applied to every string of at most MaxUtf8   *)
(* bytes over an alphabet that holds NUL, ASCII, the ends of every range   *)
(* a continuation byte may be confined to, and leads of every length.      *)
(***************************************************************************)
MaxUtf8 == 4

Utf8Bytes == {0, 65, 128, 143, 144, 159, 160, 191, 193, 194, 224, 237, 240, 244, 245}

Utf8Strings == UNION { [1..n -> Utf8Bytes] : n \in 0..MaxUtf8 }

InitUtf8 ==
    /\ build = [BJDATA_EXTENSIONS |-> TRUE]
    /\ writer = WriterUnused
    /\ reader = ReaderUnused
    /\ tree = TreeUnused
    /\ \E str \in Utf8Strings :
            monitor = [who |-> "utf8", str |-> str, last |-> "none", returned |-> FALSE]

Utf8Check ==
    /\ monitor.who = "utf8"
    /\ monitor' = [monitor EXCEPT !.last = "bjd_utf8_check",
                                  !.returned = bjd_utf8_check(monitor.str)]
    /\ UNCHANGED <<writer, reader, tree, build>>

Utf8CheckNoNull ==
    /\ monitor.who = "utf8"
    /\ monitor' = [monitor EXCEPT !.last = "bjd_utf8_check_no_null",
                                  !.returned = bjd_utf8_check_no_null(monitor.str)]
    /\ UNCHANGED <<writer, reader, tree, build>>

NextUtf8 == Utf8Check \/ Utf8CheckNoNull

SpecUtf8 == InitUtf8 /\ [][NextUtf8]_vars

\* The well-formed byte sequences of UTF-8 (Unicode, table 3-7): a string
\* is valid when it is empty or starts with one of them and the rest is valid.
Utf8Sequence(str, n) ==
    /\ Len(str) >= n
    /\ \A i \in 3..n : str[i] \in 128..191
    /\ CASE n = 1 -> str[1] \in 0..127
         [] n = 2 -> str[1] \in 194..223 /\ str[2] \in 128..191
         [] n = 3 ->
                \/ str[1] = 224 /\ str[2] \in 160..191
                \/ str[1] \in (225..236) \cup {238, 239} /\ str[2] \in 128..191
                \/ str[1] = 237 /\ str[2] \in 128..159
         [] OTHER ->
                \/ str[1] = 240 /\ str[2] \in 144..191
                \/ str[1] \in 241..243 /\ str[2] \in 128..191
                \/ str[1] = 244 /\ str[2] \in 128..143

RECURSIVE Utf8Valid(_)
Utf8Valid(str) ==
    \/ Len(str) = 0
    \/ \E n \in 1..4 : Utf8Sequence(str, n) /\ Utf8Valid(Utf8Rest(str, n))

\* C34: bjd_utf8_check returns true exactly for the strings that are valid
\* UTF-8 (no truncated or overlong sequence, no surrogate, no code point above
\* U+10FFFF), and bjd_utf8_check_no_null returns true exactly for the valid
\* strings that hold no 0x00 byte.
C34_Utf8CheckDecidesValidity ==
    monitor.who = "utf8" =>
        /\ monitor.last = "bjd_utf8_check" => (monitor.returned <=> Utf8Valid(monitor.str))
        /\ monitor.last = "bjd_utf8_check_no_null"
            => (monitor.returned <=> (/\ Utf8Valid(monitor.str)
                                      /\ \A i \in 1..Len(monitor.str) : monitor.str[i] # 0))

\* the check refused a surrogate (U+D800) that follows a NUL
C34_Witness ==
    /\ monitor.who = "utf8"
    /\ monitor.last = "bjd_utf8_check"
    /\ monitor.str = <<0, 237, 160, 128>>
    /\ ~monitor.returned

\* the bytes of the message a stream tree is parsing: those it holds, those
\* the stream holds and those that have not reached the stream yet
StreamMessage(t) == t.data \o t.source \o t.pending

\* what a parse came to: the error latched, and the nodes when there is none
StreamOutcome(t) ==
    [error |-> t.error, nodes |-> IF t.error = bjd_ok THEN t.nodes ELSE << >>]

\* the tree after one try-parse of a stream tree with the given limits whose
\* read callbacks find the whole message in the stream
StreamAtOnce(data, max_size, max_nodes) ==
    bjd_tree_try_parse(
        Begin([bjd_tree_init_stream("stream", max_size, max_nodes)
                    EXCEPT !.source = data, !.chunk = Len(data)],
              [jump |-> FALSE, alloc_ok |-> TRUE, teardown_ok |-> TRUE])).t

\* C35: a try-parse call that ends the parse of a stream tree, with the tree
\* complete or with an error latched, ends it as one try-parse of a tree with
\* the same limits does when its read callback delivers the whole message at once.
C35_SplitDoesNotChangeOutcome ==
    [][(/\ StreamTryParse
        /\ tree.error = bjd_ok
        /\ tree.parser.state # bjd_tree_parse_state_parsed
        /\ tree'.error # bjd_ok \/ tree'.parse_return = "true")
        => StreamOutcome(tree')
            = StreamOutcome(StreamAtOnce(StreamMessage(tree), tree.max_size, tree.max_nodes))]_vars

\* the message of a stream tree is well formed and within the tree's limits
StreamMessageFits(t) ==
    /\ FirstMessage(StreamMessage(t)).error = bjd_ok
    /\ FirstMessage(StreamMessage(t)).size = Len(StreamMessage(t))
    /\ Len(StreamMessage(t)) <= t.max_size
    /\ FirstMessage(StreamMessage(t)).node_count <= t.max_nodes

\* C36: a try-parse call on a stream tree whose message is well formed, at
\* most max_size bytes long and of at most max_nodes nodes never latches
\* bjd_error_too_big, however the message is split across the reads.
C36_FittingMessageNeverTooBig ==
    [][(/\ StreamTryParse
        /\ tree.error = bjd_ok
        /\ tree.parser.state # bjd_tree_parse_state_parsed
        /\ StreamMessageFits(tree))
        => tree'.error # bjd_error_too_big]_vars

(***************************************************************************)
(* SpecDiscard: a reader over a message of nested values, driven by        *)
(* read_tag, discard and the done calls.                                   *)
(***************************************************************************)
DiscardInputs ==
    { <<147, 192, 162, 97, 98, 145, 1>>,            \* [nil, "ab", [1]]
      <<130, 161, 97, 146, 1, 2, 192, 195>>,        \* {"a": [1, 2], nil: true}
      <<146, 213, 1, 97, 98, 204, 200>>,            \* [ext of 2 bytes, 200]
      <<146, 196, 2, 97, 98, 192>>,                 \* [bin of 2 bytes, nil]
      <<146, 145, 144, 128>>,                       \* [[[]], {}]
      <<147, 192, 162, 97>>,                        \* cut short inside a str
      <<146, 193, 192>> }                           \* the reserved byte

Discard ==
    ReaderCall({TRUE}, LAMBDA r : [r |-> bjd_discard(r)], LAMBDA result : Before)

InitDiscard ==
    /\ build = [BJDATA_EXTENSIONS |-> TRUE]
    /\ writer = WriterUnused
    /\ \E mode \in {"data", "file"}, data \in DiscardInputs, error_fn \in BOOLEAN :
            reader = ReaderSetup(mode, data, 2, error_fn)
    /\ tree = TreeUnused
    /\ monitor = MonitorInit("reader")

NextDiscard ==
    \/ ReadTag
    \/ Discard
    \/ DoneArray
    \/ DoneMap
    \/ ReaderDestroy

SpecDiscard == InitDiscard /\ [][NextDiscard]_vars

\* the elements an open compound still expects: a map expects two per pair,
\* less the key of a pair whose value is awaited
ElementsLeft(element) ==
    IF element.type = bjd_type_map
    THEN 2 * element.left - (IF element.key_needs_value THEN 1 ELSE 0)
    ELSE element.left

\* the bytes start with one complete well-formed value
ValueAhead(data) == Len(data) >= 1 /\ FirstMessage(data).error = bjd_ok

\* the number of bytes of the value the bytes start with
ValueLen(data) == FirstMessage(data).size

\* discard took one value off the reader: the value's bytes are consumed, no
\* error is latched, the same compounds are open and the innermost expects
\* one element less
DiscardedOne(before, after) ==
    /\ after.error = bjd_ok
    /\ ReaderUnread(after)
        = SubSeq(ReaderUnread(before), ValueLen(ReaderUnread(before)) + 1,
                 Len(ReaderUnread(before)))
    /\ Len(after.track.elements) = Len(before.track.elements)
    /\ \A i \in 1..Len(before.track.elements) :
            /\ after.track.elements[i].type = before.track.elements[i].type
            /\ ElementsLeft(after.track.elements[i])
                = ElementsLeft(before.track.elements[i])
                    - (IF i = Len(before.track.elements) THEN 1 ELSE 0)

\* C38: discard on a healthy reader that has a complete value ahead, at the
\* top level or inside an array or map that still expects an element,
\* consumes exactly that value (header, payload and nested children) and
\* leaves the same compounds open, the innermost expecting one element less.
C38_DiscardTakesOneValue ==
    [][(/\ Discard
        /\ reader.error = bjd_ok
        /\ TrackAdmits(reader.track)
        /\ \A i \in 1..Len(reader.track.elements) :
                reader.track.elements[i].type \in {bjd_type_array, bjd_type_map}
        /\ ValueAhead(ReaderUnread(reader)))
        => DiscardedOne(reader, reader')]_vars

\* the innermost open compound of a tracker is a bin with no byte left
BinComplete(track) ==
    /\ Len(track.elements) >= 1
    /\ track.elements[Len(track.elements)].type \in {bjd_type_bin, bjd_type_huge}
    /\ track.elements[Len(track.elements)].left = 0

\* C40: finish_bin on a healthy writer whose innermost open compound is a bin
\* that has received all its bytes latches no error, and neither does done_bin
\* on a healthy reader whose innermost open compound is a bin read to its end.
C40_BinClosesUnderItsOwnKind ==
    [][/\ (FinishBin /\ writer.error = bjd_ok /\ BinComplete(writer.track))
            => writer'.error = bjd_ok
       /\ (DoneBin /\ reader.error = bjd_ok /\ BinComplete(reader.track))
            => reader'.error = bjd_ok]_vars

(***************************************************************************)
(* SpecDestroy: an instance that owns a buffer (a growable writer, or a    *)
(* tree over a stream) is used and then destroyed, again after the error   *)
(* callback left a destroy non-locally, and again after a destroy that     *)
(* returned.                                                               *)
(***************************************************************************)
MaxDestroys == 2

WriterDestroyAgain ==
    /\ monitor.who = "writer"
    /\ writer.life = "destroyed"
    /\ writer.destroy_calls < MaxDestroys
    /\ writer' = End(bjd_writer_destroy(Begin(writer, NoEnv)))
    /\ UNCHANGED <<reader, tree, build, monitor>>

TreeDestroyAgain ==
    /\ monitor.who = "tree"
    /\ tree.life = "destroyed"
    /\ tree.destroy_calls < MaxDestroys
    /\ tree' = End(bjd_tree_destroy(Begin(tree, NoEnv)))
    /\ UNCHANGED <<writer, reader, build, monitor>>

InitDestroy ==
    /\ build = [BJDATA_EXTENSIONS |-> TRUE]
    /\ reader = ReaderUnused
    /\ \/ /\ \E error_fn \in BOOLEAN :
                writer = End(bjd_writer_set_error_handler(bjd_writer_init_growable(TRUE),
                                                          error_fn))
          /\ tree = TreeUnused
          /\ monitor = MonitorInit("writer")
       \/ /\ writer = WriterUnused
          /\ \E message \in StreamMessages, chunk \in {2, 8}, error_fn \in BOOLEAN :
                tree = TreeSetup("stream", message.data, chunk,
                                 [size |-> 64, nodes |-> 8], error_fn)
          /\ monitor = MonitorInit("tree")

NextDestroy ==
    \/ WriteNil
    \/ WriterFlagError
    \/ WriterDestroy
    \/ WriterDestroyAgain
    \/ TreeArrive
    \/ StreamTryParse
    \/ TreeDestroy
    \/ TreeDestroyAgain

SpecDestroy == InitDestroy /\ [][NextDestroy]_vars

\* C39: whatever destroy calls an instance has received, the output buffer
\* of a growable writer and the read buffer of a stream tree have each been
\* freed by the library at most once.
C39_OwnedBuffersFreedAtMostOnce ==
    /\ writer.frees <= 1
    /\ tree.frees <= 1

(***************************************************************************)
(* SpecFill: a reader fed by a fill callback that delivers a fixed number  *)
(* of bytes per call, over a buffer of one of two sizes, driven by         *)
(* read_tag, read_bytes, skip_bytes, discard and the done calls.           *)
(***************************************************************************)
FillInputs ==
    { <<217, 40>> \o [i \in 1..40 |-> i] \o <<192>>,     \* a str of 40 bytes, nil
      <<147, 192, 162, 97, 98, 145, 1>>,                  \* [nil, "ab", [1]]
      <<146, 213, 1, 97, 98, 204, 200>>,                  \* [ext of 2 bytes, 200]
      <<205, 1, 2, 203, 1, 2, 3, 4, 5, 6, 7, 8>>,         \* 258, a double
      <<163, 97, 98, 99, 195>>,                           \* "abc", true
      <<162, 97>> }                                       \* cut short inside a str

FillChunks == {1, 2, 5, 64}

FillSizes == {32, 48}

FillCounts == {1, 2, 3, 38, 40}

FillReadBytesOf(n) ==
    ReaderCall({TRUE}, LAMBDA r : bjd_read_bytes(r, n), LAMBDA result : Before)

FillReadBytes == \E n \in FillCounts : FillReadBytesOf(n)

FillSkipBytesOf(n) ==
    ReaderCall({TRUE}, LAMBDA r : [r |-> bjd_skip_bytes(r, n)], LAMBDA result : Before)

FillSkipBytes == \E n \in FillCounts : FillSkipBytesOf(n)

InitFill ==
    /\ build = [BJDATA_EXTENSIONS |-> TRUE]
    /\ writer = WriterUnused
    /\ tree = TreeUnused
    /\ monitor = MonitorInit("reader")
    /\ \E data \in FillInputs, chunk \in FillChunks, size \in FillSizes, error_fn \in BOOLEAN :
            reader = End(bjd_reader_set_error_handler(
                            bjd_reader_set_fill(
                                [bjd_reader_init(size, << >>)
                                    EXCEPT !.source = data, !.chunk = chunk],
                                "file"),
                            error_fn))

NextFill ==
    \/ ReadTag
    \/ FillReadBytes
    \/ FillSkipBytes
    \/ Discard
    \/ DoneStr
    \/ DoneArray
    \/ ReaderDestroy

SpecFill == InitFill /\ [][NextFill]_vars

\* the reader initialised with what is left of the source pre-loaded, at the
\* same place in the same open compounds
Preloaded(r) ==
    [bjd_reader_init_data(ReaderUnread(r)) EXCEPT !.track = r.track, !.error_fn = r.error_fn]

\* two readers after the same call stand alike: both healthy, with the same
\* bytes unread and the same open compounds, or both in error, with the same
\* error unless the source ended (io for a fill callback, invalid for
\* pre-loaded data)
FillAlike(filled, loaded) ==
    IF loaded.error = bjd_ok
    THEN /\ filled.error = bjd_ok
         /\ ReaderUnread(filled) = ReaderUnread(loaded)
         /\ filled.track = loaded.track
    ELSE \/ filled.error = loaded.error
         \/ loaded.error = bjd_error_invalid /\ filled.error \in {bjd_error_io, bjd_error_eof}

\* C37: whatever a reader with a fill callback has been through, its next
\* read_tag, read_bytes, skip_bytes or discard returns the tag or the bytes
\* that the same call returns on a reader with the rest of the source
\* pre-loaded, and leaves it at the same place in the source and in the same
\* open compounds.
C37_FillSplitDoesNotChangeReads ==
    (monitor.who = "reader" /\ reader.life = "live" /\ reader.fill = "file"
        /\ reader.error = bjd_ok) =>
        \A env \in ReaderEnvs(reader, {TRUE}) :
            /\ LET same(a, b) ==
                        /\ FillAlike(a.r, b.r)
                        /\ b.r.error = bjd_ok => TagPlain(a.tag) = TagPlain(b.tag)
               IN  same(bjd_read_tag(Begin(reader, env)),
                        bjd_read_tag(Begin(Preloaded(reader), env)))
            /\ \A n \in FillCounts :
                    /\ LET same(a, b) ==
                                /\ FillAlike(a.r, b.r)
                                /\ b.r.error = bjd_ok => a.p = b.p
                       IN  same(bjd_read_bytes(Begin(reader, env), n),
                                bjd_read_bytes(Begin(Preloaded(reader), env), n))
                    /\ FillAlike(bjd_skip_bytes(Begin(reader, env), n),
                                 bjd_skip_bytes(Begin(Preloaded(reader), env), n))
            /\ FillAlike(bjd_discard(Begin(reader, env)),
                         bjd_discard(Begin(Preloaded(reader), env)))

\* a str of 40 bytes was skipped through a buffer of 32 bytes filled one byte
\* at a time, and the reader stands before the nil that follows it
C37_Witness ==
    /\ reader.life = "live"
    /\ reader.fill = "file"
    /\ reader.size = 32
    /\ reader.chunk = 1
    /\ reader.error = bjd_ok
    /\ Len(reader.track.elements) = 1
    /\ reader.track.elements[1] = [type |-> bjd_type_str, left |-> 0, key_needs_value |-> FALSE]
    /\ ReaderUnread(reader) = <<192>>
    /\ reader.fill_calls >= 40

=========================================================================
